---------------------------- MODULE Spec2Model ----------------------------
(***************************************************************************)
(* Models of six programs of the repository, each under a specification    *)
(* of its own; the variables of the other programs stay at rest.           *)
(*                                                                         *)
(*   Spec,            the CSV writer and reader of                         *)
(*   FairSpec         src/cpp/04-data-science/02-simple-csv-handler.cpp,   *)
(*                    the second as a process that keeps running           *)
(*   MutexSpec,       the std::mutex and std::unique_lock demonstrations   *)
(*   MutexFairSpec    of src/unnamed/part_006, the second with a fair      *)
(*                    scheduler                                            *)
(*   PromiseSpec,     the std::promise demonstration of                    *)
(*   PromiseFairSpec  src/unnamed/part_006                                 *)
(*   GuardSpec,       the MutexGuard demonstration of                      *)
(*   GuardFairSpec    src/unnamed/part_005                                 *)
(*   DmSpec           the exception safety demonstration of                *)
(*                    src/unnamed/part_004                                 *)
(*   MsSpec           the MyString class of                                *)
(*                    src/cpp/03-advanced/05-move-semantics-rvalues.cpp    *)
(*                                                                         *)
(* In the CSV model a std::string is a sequence of one-character strings,  *)
(* a row is a sequence of such strings and a table a sequence of rows.     *)
(* The C++ indices i, j, the stream positions and the loop structure are   *)
(* kept: sequences are indexed from 1, so element k of a C++ container is  *)
(* element k + 1 here.  A run is one of the two demonstrations of main:    *)
(* write_csv of a table followed by read_csv of the file written, or       *)
(* read_csv of a file whose text was written directly.                     *)
(***************************************************************************)
EXTENDS Integers, Sequences, FiniteSets, TLC

\* ------------------------------------------------------------ characters

Comma == ","
Quote == "\""
LF    == "\n"
CR    == "\r"

\* The characters the enumerated inputs are made of: one ordinary character
\* and every character the writer or the reader treats specially.
Chars == {"a", Comma, Quote, LF, CR}

\* ---------------------------------------------------------------- bounds

\* The longest text of a directly written input file.
MaxTextLen == 5

\* The size of the largest enumerated table: one for every row, one for every
\* field and one for every character of a field.
MaxTableSize == 5

\* ---------------------------------------------------------------- inputs

SeqsUpTo(S, n) == UNION {[1..k -> S] : k \in 0..n}

Last(s) == s[Len(s)]

Front(s) == SubSeq(s, 1, Len(s) - 1)

\* A table is enumerated as the sequence of the steps that build it: RS starts
\* a row, FS starts a field of the last row, a character extends the last
\* field.
RS == "RS"
FS == "FS"

WellFormedSteps(s) ==
    /\ s # <<>> => s[1] = RS
    /\ \A k \in 2..Len(s) : s[k] \in Chars => s[k - 1] # RS

RECURSIVE TableOfSteps(_)
TableOfSteps(s) ==
    IF s = <<>> THEN <<>>
    ELSE LET t == TableOfSteps(Front(s))
             x == Last(s)
             r == Len(t)
         IN  IF x = RS THEN Append(t, <<>>)
             ELSE IF x = FS THEN [t EXCEPT ![r] = Append(@, <<>>)]
             ELSE [t EXCEPT ![r][Len(t[r])] = Append(@, x)]

Tables ==
    {TableOfSteps(s) : s \in {u \in SeqsUpTo(Chars \cup {RS, FS}, MaxTableSize) :
                                   WellFormedSteps(u)}}

Texts == SeqsUpTo(Chars, MaxTextLen)

\* The tables and the lines the documentation of the program names.
ScenarioA == << <<<<"a">>, <<"b">>>>, <<<<"c", ",", "d">>, <<"e">>>> >>

ScenarioA_Text ==
    <<"a", ",", "b", LF, Quote, "c", ",", "d", Quote, ",", "e", LF>>

\* The same text with CRLF line endings.
ScenarioA_CRLF ==
    <<"a", ",", "b", CR, LF, Quote, "c", ",", "d", Quote, ",", "e", CR, LF>>

HeSaidHi == <<"H", "e", " ", "s", "a", "i", "d", " ", Quote, "h", "i", Quote>>

HeSaidHi_Encoded ==
    <<Quote, "H", "e", " ", "s", "a", "i", "d", " ",
      Quote, Quote, "h", "i", Quote, Quote, Quote>>

ScenarioC_Line == <<"a", ",", ",", "c">>

ScenarioD_Line == <<"a", ",", "b", ",">>

ScenarioE == << <<<<"a">>, <<"b">>>>, <<<<"c">>, <<"d">>, <<"e">>>> >>

\* A quoted field followed by characters before the next comma.
ScenarioF_Line == <<Quote, "a", "b", Quote, "c", "d", ",", "e">>

ScenarioTables == {ScenarioA, << <<HeSaidHi>> >>, ScenarioE}

ScenarioTexts ==
    {ScenarioA_Text, ScenarioA_CRLF, Append(HeSaidHi_Encoded, LF),
     Append(ScenarioC_Line, LF), Append(ScenarioD_Line, LF),
     Append(ScenarioF_Line, LF)}

\* ------------------------------------------------------ escape_csv_field

\* The for loop of escape_csv_field from character k + 1 on: needs_quoting
\* and escaped_field after the last character.
RECURSIVE EscapeLoop(_, _, _, _)
EscapeLoop(field_in, k, needs_quoting, escaped_field) ==
    IF k >= Len(field_in)
    THEN [needs_quoting |-> needs_quoting, escaped_field |-> escaped_field]
    ELSE LET c == field_in[k + 1]
         IN  EscapeLoop(field_in, k + 1,
                        needs_quoting \/ c = Comma \/ c = LF \/ c = Quote,
                        IF c = Quote
                        THEN escaped_field \o <<Quote, Quote>>
                        ELSE Append(escaped_field, c))

\* escape_csv_field with a slip: the quoted result wraps the field itself
\* instead of escaped_field, so its quotes are not doubled.
escape_csv_field_undoubled(field_in) ==
    LET r == EscapeLoop(field_in, 0, FALSE, <<>>)
    IN  IF r.needs_quoting
        THEN <<Quote>> \o field_in \o <<Quote>>
        ELSE field_in

\* escape_csv_field that quotes every field, whether it needs quoting or not.
escape_csv_field_always_quoted(field_in) ==
    LET r == EscapeLoop(field_in, 0, FALSE, <<>>)
    IN  <<Quote>> \o r.escaped_field \o <<Quote>>

escape_csv_field(field_in) ==
    LET r == EscapeLoop(field_in, 0, FALSE, <<>>)
    IN  IF r.needs_quoting
        THEN <<Quote>> \o r.escaped_field \o <<Quote>>
        ELSE field_in

\* ----------------------------------------------------------------- state

VARIABLES
    data_to_write,  \* the table main hands to write_csv
    file,           \* the text of the file on disk
    pc,             \* the statement the program is at
    i, j,           \* the loop indices of write_csv
    out_fail,       \* outfile.fail() before outfile.close()
    close_fail,     \* outfile.fail() after outfile.close()
    write_result,   \* what write_csv returned: "none" before it returns
    in_open,        \* infile.is_open()
    in_pos,         \* the number of characters read from infile
    in_eof,         \* infile.eof()
    in_bad,         \* infile.bad()
    line,           \* the line std::getline delivered, without its CR
    ls_pos,         \* the number of characters read from line_stream
    row, field, quoted_content, in_quotes,  \* the locals of the line decoder
    data            \* the table read_csv builds and returns

csv_vars == <<data_to_write, file, pc, i, j, out_fail, close_fail, write_result,
              in_open, in_pos, in_eof, in_bad, line, ls_pos, row, field,
              quoted_content, in_quotes, data>>

\* The state of the mutex demonstration of src/unnamed/part_006.
VARIABLES
    g_cout_mutex,   \* the thread that holds g_cout_mutex, 0 when it is free
    g_data_mutex,   \* the thread that holds g_data_mutex, 0 when it is free
    g_shared_data,  \* the shared counter
    worker_pc,      \* the statement every critical_section_worker is at
    worker_reg,     \* the value of g_shared_data a worker loaded to increment
    worker_printed, \* the value of g_shared_data a worker printed, 0 before
    mutex_main,     \* the statement main is at, and what it printed at the end
    ul_pc,          \* the statement unique_lock_demo is at
    ul_owns,        \* whether its std::unique_lock owns g_data_mutex
    ul_try          \* what its try_lock returned

ul_vars == <<ul_pc, ul_owns, ul_try>>

mutex_vars == <<g_cout_mutex, g_data_mutex, g_shared_data, worker_pc,
                worker_reg, worker_printed, mutex_main, ul_vars>>

\* The state of the MutexGuard demonstration of src/unnamed/part_005.
VARIABLES
    shared_data_mutex,  \* the thread that holds the mutex, 0 when it is free
    shared_data,        \* the shared counter
    guard_locked,       \* MutexGuard::locked of the guard of every thread
    guard_pc,           \* the statement every worker_thread_function is at
    guard_reg,          \* the value of shared_data a thread loaded to increment
    guard_caught,       \* whether the catch clause of a thread has run
    guard_main          \* the statement main is at, and what it printed

guard_vars == <<shared_data_mutex, shared_data, guard_locked, guard_pc,
                guard_reg, guard_caught, guard_main>>

\* The state of the exception safety demonstration of src/unnamed/part_004.
\* A Resource* is the address of a Resource in the heap, 0 for nullptr.
VARIABLES
    heap,                  \* every Resource made by new: its id and how
                           \* often it was deleted
    copy_throw_countdown,  \* Resource::copy_throw_countdown
    main_res,              \* DataManager::main_res
    backup_res_list,       \* DataManager::backup_res_list
    temp_main_res,         \* the locals of update_basic_safety
    temp_backup_res_list,
    new_main_res,          \* the locals of update_strong_safety
    new_backup_list,
    dm_pc,                 \* the statement the program is at
    dm_call,               \* the update main called last: its arguments, the
                           \* countdown main set, and whether and where it threw
    dm_before,             \* main_res, backup_res_list and the heap as they
                           \* were when that update was called
    dm_calls               \* the number of updates main has called

dm_vars == <<heap, copy_throw_countdown, main_res, backup_res_list,
             temp_main_res, temp_backup_res_list, new_main_res, new_backup_list,
             dm_pc, dm_call, dm_before, dm_calls>>

\* The std::promise demonstration of src/unnamed/part_006: the shared state of
\* data_promise and data_future, the number of set_value and set_exception
\* calls that stored a result in it, the argument delay_ms, the position of
\* the thread on promise_task, the exception its handler holds, and main.
VARIABLES promise_shared, promise_sets, delay_ms, promise_pc, promise_caught,
          promise_main

promise_vars == <<promise_shared, promise_sets, delay_ms, promise_pc,
                  promise_caught, promise_main>>

\* The MyString class of src/cpp/03-advanced/05-move-semantics-rvalues.cpp:
\* the MyString objects of the program with their members data and len, the
\* character arrays new char[] has allocated with the number of times
\* delete[] was applied to each, and whether the program is running.
VARIABLES ms_obj, ms_buf, ms_pc

ms_vars == <<ms_obj, ms_buf, ms_pc>>

vars == <<csv_vars, mutex_vars, guard_vars, dm_vars, promise_vars, ms_vars>>

\* What the steps of one program leave alone: the state of the others.
not_csv == <<mutex_vars, guard_vars, dm_vars, promise_vars, ms_vars>>

not_mutex == <<csv_vars, guard_vars, dm_vars, promise_vars, ms_vars>>

not_guard == <<csv_vars, mutex_vars, dm_vars, promise_vars, ms_vars>>

not_dm == <<csv_vars, mutex_vars, guard_vars, promise_vars, ms_vars>>

not_promise == <<csv_vars, mutex_vars, guard_vars, dm_vars, ms_vars>>

not_ms == <<csv_vars, mutex_vars, guard_vars, dm_vars, promise_vars>>

\* The number of threads main starts on critical_section_worker.
NumWorkers == 3

Workers == 1..NumWorkers

\* The number of threads main starts on worker_thread_function.
NumGuardThreads == 3

GuardThreads == 1..NumGuardThreads

\* The id of the thread that throws inside its critical section.
ThrowingId == 2

\* The most updates of the DataManager in one run.
MaxCalls == 2

\* The most Resources in the backups handed to an update.
MaxBackups == 2

\* The values main sets Resource::copy_throw_countdown to: 0 for no failure,
\* and every value that can make a copy of the backups fail or just not fail.
Countdowns == 0..(MaxBackups + 1)

\* The CSV program at rest: it has left main.
CsvIdle ==
    /\ data_to_write = <<>> /\ file = <<>>
    /\ pc = "exit"
    /\ i = 0 /\ j = 0
    /\ out_fail = FALSE /\ close_fail = FALSE
    /\ write_result = "none"
    /\ in_open = FALSE
    /\ in_pos = 0 /\ in_eof = FALSE /\ in_bad = FALSE
    /\ line = <<>> /\ ls_pos = 0
    /\ row = <<>> /\ field = <<>> /\ quoted_content = <<>>
    /\ in_quotes = FALSE
    /\ data = <<>>

\* The mutex demonstration before main starts it: the globals as they are
\* defined, no worker thread.
MutexIdle ==
    /\ g_cout_mutex = 0 /\ g_data_mutex = 0
    /\ g_shared_data = 0
    /\ worker_pc = [t \in Workers |-> "none"]
    /\ worker_reg = [t \in Workers |-> 0]
    /\ worker_printed = [t \in Workers |-> 0]
    /\ mutex_main = [pc |-> "idle", i |-> 0, final |-> 0]
    /\ ul_pc = "none" /\ ul_owns = FALSE /\ ul_try = "none"

\* The MutexGuard demonstration before main starts it.
GuardIdle ==
    /\ shared_data_mutex = 0
    /\ shared_data = 0
    /\ guard_locked = [t \in GuardThreads |-> FALSE]
    /\ guard_pc = [t \in GuardThreads |-> "none"]
    /\ guard_reg = [t \in GuardThreads |-> 0]
    /\ guard_caught = [t \in GuardThreads |-> FALSE]
    /\ guard_main = [pc |-> "idle", i |-> 1, final |-> 0]

\* No update has been called.
NoCall ==
    [method |-> "none", id |-> 0, nb |-> 0, countdown |-> 0,
     threw |-> FALSE, thrown_at |-> 0]

NoSnapshot == [main_res |-> 0, backup_res_list |-> <<>>, heap |-> <<>>]

\* The exception safety demonstration before main constructs the DataManager.
DmIdle ==
    /\ heap = <<>>
    /\ copy_throw_countdown = 0
    /\ main_res = 0 /\ backup_res_list = <<>>
    /\ temp_main_res = 0 /\ temp_backup_res_list = <<>>
    /\ new_main_res = 0 /\ new_backup_list = <<>>
    /\ dm_pc = "idle"
    /\ dm_call = NoCall
    /\ dm_before = NoSnapshot
    /\ dm_calls = 0

\* The delay above which promise_task throws.
TooLong == 500

\* The delay main hands to promise_task.
MainDelay == 300

\* The values of delay_ms: that of main, and values on both sides of the
\* test of promise_task.
Delays == {0, MainDelay, TooLong - 1, TooLong, TooLong + 1, 2 * TooLong}

\* The std::promise demonstration before main starts it.
PromiseIdle ==
    /\ promise_shared = "none"
    /\ promise_sets = 0
    /\ delay_ms = 0
    /\ promise_pc = "none"
    /\ promise_caught = "none"
    /\ promise_main = [pc |-> "idle", promised_data |-> "none", caught |-> "none"]

\* The number of MyString objects of a run.
NumStrings == 3

Strings == 1..NumStrings

\* The most character arrays a run allocates.
MaxBufs == 3

\* The longest C string a MyString is constructed from.
MaxStrLen == 1

\* Storage that holds no MyString: before construction and after destruction.
NoString == [live |-> FALSE, data |-> 0, len |-> 0]

\* The move semantics demonstration before main constructs a MyString.
MsIdle ==
    /\ ms_obj = [o \in Strings |-> NoString]
    /\ ms_buf = <<>>
    /\ ms_pc = "idle"

writer_vars == <<i, j, out_fail, close_fail, write_result>>

reader_vars == <<in_open, in_pos, in_eof, in_bad, line, data>>

decoder_vars == <<ls_pos, row, field, quoted_content, in_quotes>>

Init ==
    /\ \/ /\ data_to_write \in Tables \cup ScenarioTables
          /\ file = <<>>
          /\ pc = "write_open"
       \/ /\ data_to_write = <<>>
          /\ file \in Texts \cup ScenarioTexts
          /\ pc = "read_open"
    /\ i = 0 /\ j = 0
    /\ out_fail = FALSE
    /\ close_fail = FALSE
    /\ write_result = "none"
    /\ in_open = FALSE
    /\ in_pos = 0 /\ in_eof = FALSE /\ in_bad = FALSE
    /\ line = <<>> /\ ls_pos = 0
    /\ row = <<>> /\ field = <<>> /\ quoted_content = <<>>
    /\ in_quotes = FALSE
    /\ data = <<>>
    /\ MutexIdle
    /\ GuardIdle
    /\ DmIdle
    /\ MsIdle
    /\ PromiseIdle

\* -------------------------------------------------------------- write_csv

\* outfile << s on a stream in state [text, fail]: nothing is written to a
\* failed stream, and an insertion the file system refuses sets the fail state.
\* The file system decides at every insertion whether it refuses it.
Insert(stream, s, refused) ==
    IF stream.fail THEN stream
    ELSE IF refused THEN [stream EXCEPT !.fail = TRUE]
    ELSE [stream EXCEPT !.text = @ \o s]

\* std::ofstream outfile(filename) and the is_open test.  The file system
\* decides whether the file opens; opening truncates the file.
WriteOpen ==
    /\ pc = "write_open"
    /\ \E is_open \in BOOLEAN :
         IF ~is_open
         THEN /\ write_result' = "false"
              /\ pc' = "exit"
              /\ UNCHANGED file
         ELSE /\ file' = <<>>
              /\ pc' = "write_loop"
              /\ UNCHANGED write_result
    /\ UNCHANGED <<data_to_write, i, j, out_fail, close_fail>>
    /\ UNCHANGED <<reader_vars, decoder_vars>>
    /\ UNCHANGED not_csv

\* One iteration of the inner loop: the escaped field, then a comma unless the
\* field is the last of its row.
WriteField ==
    /\ pc = "write_loop"
    /\ i < Len(data_to_write)
    /\ j < Len(data_to_write[i + 1])
    /\ \E r1 \in BOOLEAN, r2 \in BOOLEAN :
         LET wrow == data_to_write[i + 1]
             s0 == [text |-> file, fail |-> out_fail]
             s1 == Insert(s0, escape_csv_field(wrow[j + 1]), r1)
             s2 == IF j < Len(wrow) - 1 THEN Insert(s1, <<Comma>>, r2) ELSE s1
         IN  /\ file' = s2.text
             /\ out_fail' = s2.fail
    /\ j' = j + 1
    /\ UNCHANGED <<data_to_write, pc, i, close_fail, write_result>>
    /\ UNCHANGED <<reader_vars, decoder_vars>>
    /\ UNCHANGED not_csv

\* WriteEndRow with the line break written between rows only, as in the test
\* the source has commented out (i < data_to_write.size() - 1).
WriteEndRow_between_rows ==
    /\ pc = "write_loop"
    /\ i < Len(data_to_write)
    /\ j >= Len(data_to_write[i + 1])
    /\ \E r1 \in BOOLEAN :
         LET s0 == [text |-> file, fail |-> out_fail]
             s1 == IF i < Len(data_to_write) - 1
                   THEN Insert(s0, <<LF>>, r1) ELSE s0
         IN  /\ file' = s1.text
             /\ out_fail' = s1.fail
    /\ i' = i + 1
    /\ j' = 0
    /\ UNCHANGED <<data_to_write, pc, close_fail, write_result>>
    /\ UNCHANGED <<reader_vars, decoder_vars>>
    /\ UNCHANGED not_csv

\* The end of one iteration of the outer loop: the line break after the row.
WriteEndRow ==
    /\ pc = "write_loop"
    /\ i < Len(data_to_write)
    /\ j >= Len(data_to_write[i + 1])
    /\ \E r1 \in BOOLEAN :
         LET s1 == Insert([text |-> file, fail |-> out_fail], <<LF>>, r1)
         IN  /\ file' = s1.text
             /\ out_fail' = s1.fail
    /\ i' = i + 1
    /\ j' = 0
    /\ UNCHANGED <<data_to_write, pc, close_fail, write_result>>
    /\ UNCHANGED <<reader_vars, decoder_vars>>
    /\ UNCHANGED not_csv

\* After the loops: the fail test, close and the return value.  The texts
\* written are shorter than the buffer of the stream, so outfile.close() is
\* what hands them to the file system: when the file system refuses them
\* there, close sets the fail state and nothing of the text is in the file
\* (an empty text leaves nothing to refuse).
\* The state of the stream is not tested after close.  main goes on to
\* read_csv when write_csv returned true and returns 1 otherwise.
WriteReturn ==
    /\ pc = "write_loop"
    /\ i >= Len(data_to_write)
    /\ IF out_fail
       THEN /\ write_result' = "false"
            /\ pc' = "exit"
            /\ UNCHANGED <<file, close_fail>>
       ELSE /\ \E flushed \in (IF file = <<>> THEN {TRUE} ELSE BOOLEAN) :
                 /\ close_fail' = ~flushed
                 /\ file' = IF flushed THEN file ELSE <<>>
            /\ write_result' = "true"
            /\ pc' = "read_open"
    /\ UNCHANGED <<data_to_write, i, j, out_fail>>
    /\ UNCHANGED <<reader_vars, decoder_vars>>
    /\ UNCHANGED not_csv


\* --------------------------------------------------------------- read_csv

\* std::ifstream infile(filename) and the is_open test: the file system
\* decides whether the file opens, and read_csv returns the empty table when
\* it does not.
ReadOpen ==
    /\ pc = "read_open"
    /\ \E is_open \in BOOLEAN :
         /\ in_open' = is_open
         /\ pc' = IF is_open THEN "getline" ELSE "exit"
    /\ UNCHANGED <<data_to_write, file>>
    /\ UNCHANGED <<in_pos, in_eof, in_bad, line, data>>
    /\ UNCHANGED <<writer_vars, decoder_vars>>
    /\ UNCHANGED not_csv

\* NextLF that looks inside quotes: a line break after an odd number of
\* double quotes is inside a quoted field and does not end the line.
NextLF_outside_quotes(p) ==
    LET Quotes(k) == Cardinality({m \in (p + 1)..(k - 1) : file[m] = Quote})
        Ends(k)   == file[k] = LF /\ Quotes(k) % 2 = 0
    IN  IF \E k \in (p + 1)..Len(file) : Ends(k)
        THEN CHOOSE k \in (p + 1)..Len(file) :
                 Ends(k) /\ \A m \in (p + 1)..(k - 1) : ~Ends(m)
        ELSE 0

\* The position of the first line break of the file after position p, or 0.
NextLF(p) ==
    IF \E k \in (p + 1)..Len(file) : file[k] = LF
    THEN CHOOSE k \in (p + 1)..Len(file) :
             /\ file[k] = LF
             /\ \A m \in (p + 1)..(k - 1) : file[m] # LF
    ELSE 0

\* line.pop_back() when the line ends in a carriage return.
StripCR(s) == IF s # <<>> /\ Last(s) = CR THEN Front(s) ELSE s

\* std::getline(infile, line) fails: the stream is at the end of the file (or
\* has eofbit set by the previous call), or the file system fails the read,
\* which sets badbit.  The while loop of read_csv ends.
GetLineFails ==
    /\ pc = "getline"
    /\ \/ /\ in_eof \/ in_pos >= Len(file)
          /\ in_eof' = TRUE
          /\ UNCHANGED in_bad
       \/ /\ ~in_eof
          /\ in_bad' = TRUE
          /\ UNCHANGED in_eof
    /\ pc' = "read_end"
    /\ UNCHANGED <<data_to_write, file, in_open, in_pos, line, data>>
    /\ UNCHANGED <<writer_vars, decoder_vars>>
    /\ UNCHANGED not_csv

\* std::getline(infile, line) delivers a line: the characters up to the next
\* line break, which is consumed and not stored, or up to the end of the file,
\* which sets eofbit.  Then the head of the loop body: the carriage return is
\* removed, an empty line at the end of the file is skipped, and the locals of
\* the line decoder are constructed.
GetLine ==
    /\ pc = "getline"
    /\ ~in_eof /\ ~in_bad
    /\ in_pos < Len(file)
    /\ LET lf == NextLF(in_pos)
           raw == IF lf = 0 THEN SubSeq(file, in_pos + 1, Len(file))
                  ELSE SubSeq(file, in_pos + 1, lf - 1)
           eof == (lf = 0)
           stripped == StripCR(raw)
       IN  /\ in_pos' = IF lf = 0 THEN Len(file) ELSE lf
           /\ in_eof' = eof
           /\ line' = stripped
           /\ IF stripped = <<>> /\ eof
              THEN /\ pc' = "getline"
                   /\ UNCHANGED decoder_vars
              ELSE /\ pc' = "decode"
                   /\ row' = <<>>
                   /\ field' = <<>>
                   /\ ls_pos' = 0
                   /\ UNCHANGED <<quoted_content, in_quotes>>
    /\ UNCHANGED <<data_to_write, file, in_open, in_bad, data>>
    /\ UNCHANGED writer_vars
    /\ UNCHANGED not_csv

\* What line_stream.peek() returns: the next character, or EOF.
EOF == "EOF"

Peek == IF ls_pos < Len(line) THEN line[ls_pos + 1] ELSE EOF

\* DecodeGet without the quoted branch: a double quote starts a non-quoted
\* field like any other character.
DecodeGet_no_quoting ==
    /\ pc = "decode"
    /\ IF ls_pos >= Len(line)
       THEN /\ pc' = "line_end"
            /\ UNCHANGED decoder_vars
       ELSE /\ ls_pos' = ls_pos + 1
            /\ field' = <<line[ls_pos + 1]>>
            /\ pc' = "unquoted"
            /\ UNCHANGED <<row, quoted_content, in_quotes>>
    /\ UNCHANGED <<data_to_write, file>>
    /\ UNCHANGED <<writer_vars, reader_vars>>
    /\ UNCHANGED not_csv

\* The head of the field loop, while (line_stream.get(c)), and the branch on
\* the character read.  The test of line 100 is never true: eofbit is clear
\* after a get that delivered a character.
DecodeGet ==
    /\ pc = "decode"
    /\ IF ls_pos >= Len(line)
       THEN /\ pc' = "line_end"
            /\ UNCHANGED decoder_vars
       ELSE LET c == line[ls_pos + 1]
            IN  /\ ls_pos' = ls_pos + 1
                /\ IF c = Quote
                   THEN /\ field' = <<>>
                        /\ quoted_content' = <<>>
                        /\ in_quotes' = TRUE
                        /\ pc' = "quoted"
                   ELSE /\ field' = <<c>>
                        /\ pc' = "unquoted"
                        /\ UNCHANGED <<quoted_content, in_quotes>>
                /\ UNCHANGED row
    /\ UNCHANGED <<data_to_write, file>>
    /\ UNCHANGED <<writer_vars, reader_vars>>
    /\ UNCHANGED not_csv

\* QuotedChar without the peek for an escaped quote: every double quote ends
\* the quoted field.
QuotedChar_no_escape ==
    /\ pc = "quoted"
    /\ in_quotes
    /\ ls_pos < Len(line)
    /\ LET c == line[ls_pos + 1]
       IN  IF c = Quote
           THEN /\ in_quotes' = FALSE
                /\ UNCHANGED quoted_content
           ELSE /\ quoted_content' = Append(quoted_content, c)
                /\ UNCHANGED in_quotes
    /\ ls_pos' = ls_pos + 1
    /\ UNCHANGED <<pc, row, field>>
    /\ UNCHANGED <<data_to_write, file>>
    /\ UNCHANGED <<writer_vars, reader_vars>>
    /\ UNCHANGED not_csv

\* One iteration of while (in_quotes && line_stream.get(c)).
QuotedChar ==
    /\ pc = "quoted"
    /\ in_quotes
    /\ ls_pos < Len(line)
    /\ LET c == line[ls_pos + 1]
           next == IF ls_pos + 1 < Len(line) THEN line[ls_pos + 2] ELSE EOF
       IN  IF c = Quote
           THEN IF next = Quote
                THEN /\ quoted_content' = Append(quoted_content, Quote)
                     /\ ls_pos' = ls_pos + 2
                     /\ UNCHANGED in_quotes
                ELSE /\ in_quotes' = FALSE
                     /\ ls_pos' = ls_pos + 1
                     /\ UNCHANGED quoted_content
           ELSE /\ quoted_content' = Append(quoted_content, c)
                /\ ls_pos' = ls_pos + 1
                /\ UNCHANGED in_quotes
    /\ UNCHANGED <<pc, row, field>>
    /\ UNCHANGED <<data_to_write, file>>
    /\ UNCHANGED <<writer_vars, reader_vars>>
    /\ UNCHANGED not_csv

\* QuotedExit of a decoder that accepts a quoted field only when its closing
\* quote was read: a quote left open at the end of the line is an error the
\* decoder does not go on from.
QuotedExit_closed_only ==
    /\ pc = "quoted"
    /\ ~in_quotes
    /\ field' = quoted_content
    /\ pc' = "field_done"
    /\ UNCHANGED <<ls_pos, row, quoted_content, in_quotes>>
    /\ UNCHANGED <<data_to_write, file>>
    /\ UNCHANGED <<writer_vars, reader_vars>>
    /\ UNCHANGED not_csv

\* QuotedExit of a decoder that appends the characters between the closing
\* quote and the next comma to the quoted field.
QuotedExit_appends_trailing ==
    /\ pc = "quoted"
    /\ ~in_quotes \/ ls_pos >= Len(line)
    /\ LET stop == IF \E k \in (ls_pos + 1)..Len(line) : line[k] = Comma
                   THEN CHOOSE k \in (ls_pos + 1)..Len(line) :
                            /\ line[k] = Comma
                            /\ \A m \in (ls_pos + 1)..(k - 1) : line[m] # Comma
                   ELSE Len(line) + 1
       IN  /\ field' = quoted_content \o SubSeq(line, ls_pos + 1, stop - 1)
           /\ ls_pos' = stop - 1
    /\ pc' = "field_done"
    /\ UNCHANGED <<row, quoted_content, in_quotes>>
    /\ UNCHANGED <<data_to_write, file>>
    /\ UNCHANGED <<writer_vars, reader_vars>>
    /\ UNCHANGED not_csv

\* The end of that loop, at the closing quote or at the end of the line, and
\* field = quoted_content.  The if statement that follows has an empty body.
QuotedExit ==
    /\ pc = "quoted"
    /\ ~in_quotes \/ ls_pos >= Len(line)
    /\ field' = quoted_content
    /\ pc' = "field_done"
    /\ UNCHANGED <<ls_pos, row, quoted_content, in_quotes>>
    /\ UNCHANGED <<data_to_write, file>>
    /\ UNCHANGED <<writer_vars, reader_vars>>
    /\ UNCHANGED not_csv

\* UnquotedChar that peeks and does not get: the character is appended to the
\* field and stays in the stream.
UnquotedChar_peek_only ==
    /\ pc = "unquoted"
    /\ Peek # EOF /\ Peek # Comma
    /\ field' = Append(field, Peek)
    /\ UNCHANGED <<pc, ls_pos, row, quoted_content, in_quotes>>
    /\ UNCHANGED <<data_to_write, file>>
    /\ UNCHANGED <<writer_vars, reader_vars>>
    /\ UNCHANGED not_csv

\* One iteration of the loop of a non-quoted field.
UnquotedChar ==
    /\ pc = "unquoted"
    /\ Peek # EOF /\ Peek # Comma
    /\ field' = Append(field, Peek)
    /\ ls_pos' = ls_pos + 1
    /\ UNCHANGED <<pc, row, quoted_content, in_quotes>>
    /\ UNCHANGED <<data_to_write, file>>
    /\ UNCHANGED <<writer_vars, reader_vars>>
    /\ UNCHANGED not_csv

UnquotedExit ==
    /\ pc = "unquoted"
    /\ Peek = EOF \/ Peek = Comma
    /\ pc' = "field_done"
    /\ UNCHANGED decoder_vars
    /\ UNCHANGED <<data_to_write, file>>
    /\ UNCHANGED <<writer_vars, reader_vars>>
    /\ UNCHANGED not_csv

\* row.push_back(field) and the end of the iteration of the field loop: a
\* comma is consumed, the end of the line leaves the loop.
FieldDone ==
    /\ pc = "field_done"
    /\ row' = Append(row, field)
    /\ field' = <<>>
    /\ IF Peek = Comma
       THEN ls_pos' = ls_pos + 1 /\ pc' = "decode"
       ELSE IF Peek = EOF
       THEN UNCHANGED ls_pos /\ pc' = "line_end"
       ELSE UNCHANGED ls_pos /\ pc' = "decode"
    /\ UNCHANGED <<quoted_content, in_quotes>>
    /\ UNCHANGED <<data_to_write, file>>
    /\ UNCHANGED <<writer_vars, reader_vars>>
    /\ UNCHANGED not_csv

\* After the field loop: a line that ends with a comma gets an empty field.
LineEnd ==
    /\ pc = "line_end"
    /\ row' = IF line # <<>> /\ Last(line) = Comma
              THEN Append(row, <<>>)
              ELSE row
    /\ pc' = "row_done"
    /\ UNCHANGED <<ls_pos, field, quoted_content, in_quotes>>
    /\ UNCHANGED <<data_to_write, file>>
    /\ UNCHANGED <<writer_vars, reader_vars>>
    /\ UNCHANGED not_csv

\* data.push_back(row), and back to std::getline.
PushRow ==
    /\ pc = "row_done"
    /\ data' = Append(data, row)
    /\ pc' = "getline"
    /\ UNCHANGED <<in_open, in_pos, in_eof, in_bad, line>>
    /\ UNCHANGED <<data_to_write, file>>
    /\ UNCHANGED <<writer_vars, decoder_vars>>
    /\ UNCHANGED not_csv

\* ReadReturn of a reader that reports a read error by its result: the rows
\* decoded before the error are dropped and the empty table is returned.
ReadReturn_empty_on_error ==
    /\ pc = "read_end"
    /\ pc' = "exit"
    /\ data' = IF in_bad THEN <<>> ELSE data
    /\ UNCHANGED <<in_open, in_pos, in_eof, in_bad, line>>
    /\ UNCHANGED <<data_to_write, file>>
    /\ UNCHANGED <<writer_vars, decoder_vars>>
    /\ UNCHANGED not_csv

\* After the while loop: the bad test only prints; close and return data.
ReadReturn ==
    /\ pc = "read_end"
    /\ pc' = "exit"
    /\ UNCHANGED <<data_to_write, file>>
    /\ UNCHANGED <<writer_vars, reader_vars, decoder_vars>>
    /\ UNCHANGED not_csv

\* ------------------------------------------------------------------ main

Next ==
    \/ WriteOpen
    \/ WriteField
    \/ WriteEndRow
    \/ WriteReturn
    \/ ReadOpen
    \/ GetLineFails
    \/ GetLine
    \/ DecodeGet
    \/ QuotedChar
    \/ QuotedExit
    \/ UnquotedChar
    \/ UnquotedExit
    \/ FieldDone
    \/ LineEnd
    \/ PushRow
    \/ ReadReturn

Spec == Init /\ [][Next]_vars

\* The values the variables take.
TypeOK ==
    /\ pc \in {"write_open", "write_loop", "read_open", "getline", "decode",
               "quoted", "unquoted", "field_done", "line_end", "row_done",
               "read_end", "exit"}
    /\ i \in 0..Len(data_to_write)
    /\ j \in Nat
    /\ out_fail \in BOOLEAN /\ close_fail \in BOOLEAN
    /\ write_result \in {"none", "true", "false"}
    /\ in_pos \in 0..Len(file)
    /\ ls_pos \in Nat
    /\ pc \in {"decode", "quoted", "unquoted", "field_done", "line_end"}
           => ls_pos <= Len(line)
    /\ in_open \in BOOLEAN
    /\ in_eof \in BOOLEAN /\ in_bad \in BOOLEAN /\ in_quotes \in BOOLEAN

\* ------------------------------------------------------------- references

HasChar(s, c) == \E k \in 1..Len(s) : s[k] = c

\* No file system fault met the read: the file opened and no read failed.
ReadOK == in_open /\ ~in_bad

\* write_csv returned true and no file system fault met the write.
WriteOK == write_result = "true" /\ ~close_fail

\* s with every double quote doubled.
RECURSIVE DoubleQuotes(_)
DoubleQuotes(s) ==
    IF s = <<>> THEN <<>>
    ELSE (IF Head(s) = Quote THEN <<Quote, Quote>> ELSE <<Head(s)>>)
             \o DoubleQuotes(Tail(s))

\* The reference encoder of a field.
ReferenceEncode(f) ==
    IF HasChar(f, Comma) \/ HasChar(f, LF) \/ HasChar(f, Quote)
    THEN <<Quote>> \o DoubleQuotes(f) \o <<Quote>>
    ELSE f

\* The encoded fields of a row joined by commas.
RECURSIVE RowText(_)
RowText(r) ==
    IF r = <<>> THEN <<>>
    ELSE IF Len(r) = 1 THEN escape_csv_field(r[1])
    ELSE escape_csv_field(r[1]) \o <<Comma>> \o RowText(Tail(r))

\* The text of a table: every row followed by a line break.
RECURSIVE TableText(_)
TableText(t) ==
    IF t = <<>> THEN <<>>
    ELSE RowText(Head(t)) \o <<LF>> \o TableText(Tail(t))

\* The number of line breaks of a text.
RECURSIVE CountLF(_)
CountLF(s) ==
    IF s = <<>> THEN 0
    ELSE (IF Head(s) = LF THEN 1 ELSE 0) + CountLF(Tail(s))

\* A line without quotes split at its commas.
RECURSIVE SplitAtCommas(_)
SplitAtCommas(s) ==
    IF ~HasChar(s, Comma) THEN <<s>>
    ELSE LET k == CHOOSE n \in 1..Len(s) :
                      s[n] = Comma /\ \A m \in 1..(n - 1) : s[m] # Comma
         IN  <<SubSeq(s, 1, k - 1)>> \o SplitAtCommas(SubSeq(s, k + 1, Len(s)))

\* ----------------------------------------------------------------- claims

\* C2: escape_csv_field equals the reference encoder: every field write_csv
\* inserts into a healthy stream arrives in the file as the reference encoding
\* of the field (quoted with its quotes doubled when it holds a comma, a line
\* break or a quote, verbatim otherwise), followed by a comma unless it is the
\* last field of its row.
C2_EncoderIsReference ==
    [][(/\ pc = "write_loop"
        /\ i < Len(data_to_write)
        /\ j < Len(data_to_write[i + 1])
        /\ ~out_fail')
       => file' = file \o ReferenceEncode(data_to_write[i + 1][j + 1])
                       \o (IF j + 1 < Len(data_to_write[i + 1])
                           THEN <<Comma>> ELSE <<>>)]_vars

\* The field He said "hi" has been written as "He said ""hi""".
C2_Witness ==
    /\ pc = "write_loop"
    /\ data_to_write = << <<HeSaidHi>> >>
    /\ i = 0 /\ j = 1
    /\ ~out_fail
    /\ file = HeSaidHi_Encoded

\* C3: when write_csv has written the table the file holds, row after row,
\* the encoded fields of the row joined by single commas and followed by one
\* line break: the last row is terminated too, and a table without line
\* breaks in its fields is written with as many line breaks as it has rows.
C3_WriteFormat ==
    WriteOK =>
        /\ file = TableText(data_to_write)
        /\ data_to_write # <<>> => Last(file) = LF
        /\ (\A r \in 1..Len(data_to_write) :
                \A k \in 1..Len(data_to_write[r]) :
                    ~HasChar(data_to_write[r][k], LF))
               => CountLF(file) = Len(data_to_write)

\* The table [["a","b"],["c,d","e"]] has been written.
C3_Witness ==
    /\ write_result = "true"
    /\ data_to_write = ScenarioA
    /\ file = ScenarioA_Text

\* Whether every double quote of s is one of a pair of adjacent double quotes.
RECURSIVE PairedQuotes(_)
PairedQuotes(s) ==
    IF s = <<>> THEN TRUE
    ELSE IF Head(s) # Quote THEN PairedQuotes(Tail(s))
    ELSE Len(s) >= 2 /\ s[2] = Quote /\ PairedQuotes(Tail(Tail(s)))

\* The text of a line between its first and its last character.
Inner(l) == SubSeq(l, 2, Len(l) - 1)

\* C7: in the quoted loop a double quote followed by a double quote adds one
\* double quote to the field, consumes both and stays in the loop; a double
\* quote followed by anything else ends the loop, which hands the content
\* collected to the field.  So a line that is one quoted field with its quotes
\* doubled decodes to a row of one field, the content with the pairs undone.
C7_EscapedQuote ==
    /\ [](/\ pc = "row_done"
          /\ Len(line) >= 2
          /\ line[1] = Quote
          /\ Last(line) = Quote
          /\ PairedQuotes(Inner(line))
          => /\ Len(row) = 1
             /\ DoubleQuotes(row[1]) = Inner(line))
    /\ [][/\ (/\ pc = "quoted"
              /\ in_quotes
              /\ ls_pos < Len(line)
              /\ line[ls_pos + 1] = Quote)
             => IF ls_pos + 1 < Len(line) /\ line[ls_pos + 2] = Quote
                THEN /\ quoted_content' = Append(quoted_content, Quote)
                     /\ ls_pos' = ls_pos + 2
                     /\ in_quotes'
                     /\ pc' = "quoted"
                ELSE /\ quoted_content' = quoted_content
                     /\ ls_pos' = ls_pos + 1
                     /\ ~in_quotes'
          /\ (pc = "quoted" /\ ~in_quotes)
             => pc' = "field_done" /\ field' = quoted_content]_vars

\* The line "He said ""hi""" has been decoded to the field He said "hi".
C7_Witness ==
    /\ pc = "row_done"
    /\ line = HeSaidHi_Encoded
    /\ row = <<HeSaidHi>>

\* Whether s ends with t.
EndsWith(s, t) ==
    /\ Len(s) >= Len(t)
    /\ SubSeq(s, Len(s) - Len(t) + 1, Len(s)) = t

\* Whether s is a non-empty string without comma, quote or line break.
Plain(s) ==
    /\ s # <<>>
    /\ ~HasChar(s, Comma) /\ ~HasChar(s, Quote) /\ ~HasChar(s, LF)

\* Whether line l is a quoted field that ends at position n and holds a comma
\* and no quote, then a comma, then a plain field.
QuotedThenPlain(l, n) ==
    /\ 3 <= n /\ n + 2 <= Len(l)
    /\ l[1] = Quote /\ l[n] = Quote /\ l[n + 1] = Comma
    /\ ~HasChar(SubSeq(l, 2, n - 1), Quote)
    /\ HasChar(SubSeq(l, 2, n - 1), Comma)
    /\ Plain(SubSeq(l, n + 2, Len(l)))

\* C8: a comma inside a quoted field is content.  A row of two fields, the
\* first with a comma and without quote or line break, the second plain, is
\* written as the first field in quotes, a comma, the second field and a line
\* break; and a line of that form decodes to exactly those two fields.
C8_QuotedComma ==
    /\ (/\ pc = "write_loop" /\ ~out_fail /\ i >= 1 /\ j = 0
        /\ Len(data_to_write[i]) = 2
        /\ HasChar(data_to_write[i][1], Comma)
        /\ ~HasChar(data_to_write[i][1], Quote)
        /\ ~HasChar(data_to_write[i][1], LF)
        /\ Plain(data_to_write[i][2]))
       => EndsWith(file, <<Quote>> \o data_to_write[i][1] \o <<Quote, Comma>>
                            \o data_to_write[i][2] \o <<LF>>)
    /\ pc = "row_done" =>
           \A n \in 1..Len(line) :
               QuotedThenPlain(line, n)
                   => row = <<SubSeq(line, 2, n - 1),
                              SubSeq(line, n + 2, Len(line))>>

\* The table [["a","b"],["c,d","e"]] has been written as a,b and "c,d",e and
\* read back.
C8_Witness ==
    /\ pc = "exit"
    /\ data_to_write = ScenarioA
    /\ file = ScenarioA_Text
    /\ data = ScenarioA

\* C1: field round trip.  When write_csv has written a table of one row of
\* one field and the line read_csv decodes is the encoding of that field, the
\* decoded row is that one field.
C1_FieldRoundTrip ==
    (/\ write_result = "true"
     /\ pc = "row_done"
     /\ Len(data_to_write) = 1
     /\ Len(data_to_write[1]) = 1
     /\ line = escape_csv_field(data_to_write[1][1]))
    => row = data_to_write[1]

\* C4: the line a,,c decodes to the fields a, empty, c; and in a line without
\* quotes two adjacent commas between two other characters leave an empty
\* field inside the row.
C4_EmptyMiddleField ==
    pc = "row_done" =>
        /\ line = ScenarioC_Line => row = <<<<"a">>, <<>>, <<"c">>>>
        /\ \A k \in 2..(Len(line) - 2) :
               (/\ ~HasChar(line, Quote)
                /\ line[k] = Comma /\ line[k + 1] = Comma
                /\ line[k - 1] # Comma /\ line[k + 2] # Comma)
               => \E n \in 2..(Len(row) - 1) : row[n] = <<>>

\* C5: a line without quotes that ends in a comma decodes to the fields of
\* the line without that comma, followed by an empty field.
C5_TrailingComma ==
    (/\ pc = "row_done"
     /\ line # <<>>
     /\ Last(line) = Comma
     /\ ~HasChar(line, Quote))
    => row = SplitAtCommas(Front(line)) \o << <<>> >>

\* C6: a zero-length line decodes to a row of exactly one field, the empty
\* field.
C6_EmptyLine ==
    (pc = "row_done" /\ line = <<>>) => row = << <<>> >>

\* Whether two rows of the table have different numbers of fields.
Ragged(t) == \E r1, r2 \in 1..Len(t) : Len(t[r1]) # Len(t[r2])

\* C9: a ragged table that write_csv wrote and read_csv read, with no fault of
\* the file system, is read back as written.
C9_RaggedRoundTrip ==
    (/\ pc = "exit"
     /\ WriteOK
     /\ ReadOK
     /\ Ragged(data_to_write))
    => data = data_to_write

\* C10: when the row write_csv wrote as the line being decoded ends in an
\* empty field, a comma precedes that field in the line (the row has a field
\* before it), and the decoded row ends in an empty field and has as many
\* fields as the row written.
C10_TrailingEmptyField ==
    (/\ write_result = "true"
     /\ pc = "row_done"
     /\ Len(data) < Len(data_to_write)
     /\ data_to_write[Len(data) + 1] # <<>>
     /\ Last(data_to_write[Len(data) + 1]) = <<>>
     /\ line = RowText(data_to_write[Len(data) + 1]))
    => /\ Len(data_to_write[Len(data) + 1]) >= 2
              => line # <<>> /\ Last(line) = Comma
       /\ row # <<>>
       /\ Last(row) = <<>>
       /\ Len(row) = Len(data_to_write[Len(data) + 1])

\* The segments of a text between its line breaks, each with whether a line
\* break ends it; the characters after the last line break are a segment when
\* there are any.
RECURSIVE SplitAtLF(_)
SplitAtLF(s) ==
    IF s = <<>> THEN <<>>
    ELSE IF ~HasChar(s, LF) THEN <<[text |-> s, lf |-> FALSE]>>
    ELSE LET k == CHOOSE n \in 1..Len(s) :
                      s[n] = LF /\ \A m \in 1..(n - 1) : s[m] # LF
         IN  <<[text |-> SubSeq(s, 1, k - 1), lf |-> TRUE]>>
                 \o SplitAtLF(SubSeq(s, k + 1, Len(s)))

\* s without the carriage return it ends with, if it ends with one.
WithoutCR(s) == IF s # <<>> /\ s[Len(s)] = CR THEN SubSeq(s, 1, Len(s) - 1) ELSE s

\* The records of a text when only a carriage return that immediately precedes
\* a line break is removed.
RecordsCRBeforeLF(t) ==
    LET segs == SplitAtLF(t)
    IN  [k \in 1..Len(segs) |->
            IF segs[k].lf THEN WithoutCR(segs[k].text) ELSE segs[k].text]

\* The records of a text when a carriage return is removed from the end of
\* every segment, and a last segment without line break that is empty after
\* the removal is no record.
RecordsCRAtEnd(t) ==
    LET segs == SplitAtLF(t)
        keep(seg) == seg.lf \/ WithoutCR(seg.text) # <<>>
        all  == [k \in 1..Len(segs) |-> WithoutCR(segs[k].text)]
    IN  IF segs # <<>> /\ ~keep(segs[Len(segs)])
        THEN SubSeq(all, 1, Len(all) - 1)
        ELSE all

\* t with every carriage return that immediately precedes a line break removed.
RECURSIVE ToLF(_)
ToLF(t) ==
    IF t = <<>> THEN <<>>
    ELSE IF Len(t) >= 2 /\ t[1] = CR /\ t[2] = LF
    THEN <<LF>> \o ToLF(Tail(Tail(t)))
    ELSE <<Head(t)>> \o ToLF(Tail(t))

\* Whether t is a text with LF line endings written with CRLF line endings:
\* every line break of t follows a carriage return, and no line of the text
\* with LF line endings ends in a carriage return of its own.
HasCRLFEndings(t) ==
    /\ HasChar(t, LF)
    /\ \A k \in 1..Len(t) : t[k] = LF => k > 1 /\ t[k - 1] = CR
    /\ \A k \in 1..Len(SplitAtLF(ToLF(t))) :
           WithoutCR(SplitAtLF(ToLF(t))[k].text) = SplitAtLF(ToLF(t))[k].text

\* Whether the line decoder is at work on a line.
Decoding ==
    pc \in {"decode", "quoted", "unquoted", "field_done", "line_end", "row_done"}

\* C11 as stated: read_csv splits the file at every line break, removes one
\* carriage return that immediately precedes the line break and nothing else,
\* decodes every record and appends the rows in the order of the records; a
\* file with CRLF line endings is decoded as the file with LF line endings.
C11_SplitAtLF ==
    /\ [](/\ Decoding
             => /\ Len(data) < Len(RecordsCRBeforeLF(file))
                /\ line = RecordsCRBeforeLF(file)[Len(data) + 1]
          /\ (pc = "exit" /\ ReadOK)
             => Len(data) = Len(RecordsCRBeforeLF(file))
          /\ (Decoding /\ HasCRLFEndings(file))
             => line = RecordsCRBeforeLF(ToLF(file))[Len(data) + 1]
          /\ (pc = "exit" /\ ReadOK /\ file = ScenarioA_CRLF)
             => data = ScenarioA)
    /\ [][pc = "row_done" => data' = Append(data, row)]_vars

\* What the line reader does: the carriage return is removed from the end
\* of every line std::getline delivers, also of a last line that no line
\* break ends, and such a last line is skipped when it is empty after the
\* removal.
\* Every other line is decoded and its row appended, in the order of the file,
\* and a file with CRLF line endings is decoded as the file with LF line
\* endings.
LineReaderRecords ==
    /\ [](/\ Decoding
             => /\ Len(data) < Len(RecordsCRAtEnd(file))
                /\ line = RecordsCRAtEnd(file)[Len(data) + 1]
          /\ (pc = "exit" /\ ReadOK)
             => Len(data) = Len(RecordsCRAtEnd(file))
          /\ (Decoding /\ HasCRLFEndings(file))
             => line = RecordsCRAtEnd(ToLF(file))[Len(data) + 1]
          /\ (pc = "exit" /\ ReadOK /\ HasCRLFEndings(file))
             => Len(data) = Len(RecordsCRAtEnd(ToLF(file)))
          /\ (pc = "exit" /\ ReadOK /\ file = ScenarioA_CRLF)
             => data = ScenarioA)
    /\ [][pc = "row_done" => data' = Append(data, row)]_vars

\* The number of line breaks in the fields of a table.
RECURSIVE EmbeddedLFs(_)
EmbeddedLFs(t) ==
    IF t = <<>> THEN 0
    ELSE LET RECURSIVE InRow(_)
             InRow(r) == IF r = <<>> THEN 0 ELSE CountLF(Head(r)) + InRow(Tail(r))
         IN  InRow(Head(t)) + EmbeddedLFs(Tail(t))

\* C12: read_csv splits the file at line breaks without regard to quotes.  A
\* table write_csv wrote is read back with one row more for every line break
\* in its fields, so a single row with a field that holds a line break is read
\* back as more than one row; and the line being decoded never holds a line
\* break.
C12_EmbeddedLineBreak ==
    /\ (pc = "exit" /\ WriteOK /\ ReadOK)
       => /\ Len(data) = Len(data_to_write) + EmbeddedLFs(data_to_write)
          /\ (Len(data_to_write) = 1 /\ EmbeddedLFs(data_to_write) > 0)
             => Len(data) > 1
    /\ Decoding => ~HasChar(line, LF)

\* The row of the one field a LF a has been written as "a LF a" and read back
\* as the two rows a and a".
C12_Witness ==
    /\ pc = "exit"
    /\ data_to_write = << <<<<"a", LF, "a">>>> >>
    /\ file = <<Quote, "a", LF, "a", Quote, LF>>
    /\ data = << <<<<"a">>>>, <<<<"a", Quote>>>> >>

\* C13: write_csv returns false when the file does not open, and then writes
\* nothing, or when the stream has failed after the rows were written; it
\* returns true only when the file opened and no write failed, so that the
\* file then holds the text of the table.
C13_WriteResult ==
    /\ (write_result = "false" /\ ~out_fail)
       => file = <<>> /\ i = 0 /\ j = 0
    /\ write_result = "false" => pc = "exit"
    /\ write_result = "true"
       => /\ ~out_fail
          /\ ~close_fail
          /\ file = TableText(data_to_write)

\* C14: the line decoder has no error outcome.  The program is never stuck
\* before its exit; a read without file system fault consumes the whole file
\* and ends with one row for every line it decoded, whatever the lines hold;
\* characters after a closing quote start a further field; and a line that
\* opens a quote and never closes it decodes to one field that takes the rest
\* of the line, with its pairs of quotes undone (and to an empty field more
\* when the line ends in a comma).
C14_NoParseError ==
    /\ pc # "exit" => ENABLED Next
    /\ (pc = "exit" /\ ReadOK)
       => /\ in_pos = Len(file)
          /\ Len(data) = Len(RecordsCRAtEnd(file))
    /\ pc = "row_done"
       => /\ line = <<Quote, "a", Quote, "a">> => row = <<<<"a">>, <<"a">>>>
          /\ (/\ line # <<>>
              /\ line[1] = Quote
              /\ PairedQuotes(Tail(line)))
             => /\ row # <<>>
                /\ DoubleQuotes(row[1]) = Tail(line)
                /\ Len(row) = IF Last(line) = Comma THEN 2 ELSE 1

\* The line "a,a with its quote left open has been decoded to the one field
\* a,a.
C14_Witness ==
    /\ pc = "row_done"
    /\ line = <<Quote, "a", Comma, "a">>
    /\ row = <<<<"a", Comma, "a">>>>

\* Whether a field needs no quoting: it holds no comma, quote or line break.
NeedsNoQuoting(f) == ~HasChar(f, Comma) /\ ~HasChar(f, Quote) /\ ~HasChar(f, LF)

\* C15: escape_csv_field is a total function of its argument, and it leaves a
\* field that needs no quoting as it is: for every field of the table handed
\* to write_csv the encoding is a string at least as long as the field, and
\* when the field holds no comma, quote or line break, the encoding of its
\* encoding is its encoding is the field.
C15_EncodeIdempotent ==
    \A r \in 1..Len(data_to_write) :
        \A k \in 1..Len(data_to_write[r]) :
            LET f == data_to_write[r][k]
            IN  /\ DOMAIN escape_csv_field(f) = 1..Len(escape_csv_field(f))
                /\ Len(escape_csv_field(f)) >= Len(f)
                /\ NeedsNoQuoting(f)
                   => /\ escape_csv_field(f) = f
                      /\ escape_csv_field(escape_csv_field(f)) = escape_csv_field(f)

\* The field a CR, which needs no quoting, has been written as it is.
C15_Witness ==
    /\ pc = "write_loop"
    /\ data_to_write = << <<<<"a", CR>>>> >>
    /\ NeedsNoQuoting(data_to_write[1][1])
    /\ i = 0 /\ j = 1
    /\ file = <<"a", CR>>

\* ------------------------------------------- part_006: std::mutex demo
\*
\* main resets g_shared_data, starts NumWorkers threads on
\* critical_section_worker(1..NumWorkers), joins them and prints the counter.
\* A worker is at the line of the statement it executes next.  std::lock_guard
\* has no member unlock, so line 41 does not compile as it stands; it is
\* modelled as the release of g_cout_mutex it names.

MutexInit ==
    /\ CsvIdle
    /\ GuardIdle
    /\ DmIdle
    /\ MsIdle
    /\ PromiseIdle
    /\ g_cout_mutex = 0 /\ g_data_mutex = 0
    /\ g_shared_data = 0
    /\ worker_pc = [t \in Workers |-> "none"]
    /\ worker_reg = [t \in Workers |-> 0]
    /\ worker_printed = [t \in Workers |-> 0]
    /\ mutex_main = [pc |-> "l142", i |-> 0, final |-> 0]
    /\ ul_pc = "none" /\ ul_owns = FALSE /\ ul_try = "none"

\* g_shared_data = 0 and the vector of threads.
MainReset ==
    /\ mutex_main.pc = "l142"
    /\ g_shared_data' = 0
    /\ mutex_main' = [mutex_main EXCEPT !.pc = "l144"]
    /\ UNCHANGED <<g_cout_mutex, g_data_mutex, worker_pc, worker_reg, worker_printed>>
    /\ UNCHANGED ul_vars
    /\ UNCHANGED not_mutex

\* One iteration of the loop that starts the threads: thread i + 1 starts at
\* the first statement of critical_section_worker.
MainSpawn ==
    /\ mutex_main.pc = "l144"
    /\ mutex_main.i < NumWorkers
    /\ worker_pc' = [worker_pc EXCEPT ![mutex_main.i + 1] = "l39"]
    /\ mutex_main' = [mutex_main EXCEPT !.i = @ + 1]
    /\ UNCHANGED <<g_cout_mutex, g_data_mutex, g_shared_data, worker_reg, worker_printed>>
    /\ UNCHANGED ul_vars
    /\ UNCHANGED not_mutex

\* The end of that loop and the loop of joins: main goes on when every thread
\* has returned.
MainJoin ==
    /\ mutex_main.pc = "l144"
    /\ mutex_main.i >= NumWorkers
    /\ \A t \in Workers : worker_pc[t] = "done"
    /\ mutex_main' = [mutex_main EXCEPT !.pc = "l150"]
    /\ UNCHANGED <<g_cout_mutex, g_data_mutex, g_shared_data, worker_pc, worker_reg, worker_printed>>
    /\ UNCHANGED ul_vars
    /\ UNCHANGED not_mutex

\* main prints Final g_shared_data.
MainPrint ==
    /\ mutex_main.pc = "l150"
    /\ mutex_main' = [mutex_main EXCEPT !.pc = "l153", !.final = g_shared_data]
    /\ UNCHANGED <<g_cout_mutex, g_data_mutex, g_shared_data, worker_pc, worker_reg, worker_printed>>
    /\ UNCHANGED ul_vars
    /\ UNCHANGED not_mutex

\* Line 39: the constructor of cout_lock blocks until g_cout_mutex is free and
\* locks it.
LockCout(t) ==
    /\ worker_pc[t] = "l39"
    /\ g_cout_mutex = 0
    /\ g_cout_mutex' = t
    /\ worker_pc' = [worker_pc EXCEPT ![t] = "l40"]
    /\ UNCHANGED <<g_data_mutex, g_shared_data, worker_reg, worker_printed, mutex_main>>
    /\ UNCHANGED ul_vars
    /\ UNCHANGED not_mutex

\* AnnounceAndUnlock of a worker without line 41: it keeps g_cout_mutex while
\* it blocks on g_data_mutex.
AnnounceAndUnlock_keeps(t) ==
    /\ worker_pc[t] = "l40"
    /\ worker_pc' = [worker_pc EXCEPT ![t] = "l44"]
    /\ UNCHANGED <<g_cout_mutex, g_data_mutex, g_shared_data, worker_reg, worker_printed, mutex_main>>
    /\ UNCHANGED ul_vars
    /\ UNCHANGED not_mutex

\* Lines 40 and 41: the message, and g_cout_mutex is released.
AnnounceAndUnlock(t) ==
    /\ worker_pc[t] = "l40"
    /\ g_cout_mutex' = 0
    /\ worker_pc' = [worker_pc EXCEPT ![t] = "l44"]
    /\ UNCHANGED <<g_data_mutex, g_shared_data, worker_reg, worker_printed, mutex_main>>
    /\ UNCHANGED ul_vars
    /\ UNCHANGED not_mutex

\* LockData of a worker that does not wait for g_data_mutex: it enters the
\* block whether or not another thread holds the mutex.
LockData_no_wait(t) ==
    /\ worker_pc[t] = "l44"
    /\ g_data_mutex' = t
    /\ worker_pc' = [worker_pc EXCEPT ![t] = "l45"]
    /\ UNCHANGED <<g_cout_mutex, g_shared_data, worker_reg, worker_printed, mutex_main>>
    /\ UNCHANGED ul_vars
    /\ UNCHANGED not_mutex

\* Line 44: the constructor of data_lock blocks until g_data_mutex is free and
\* locks it.
LockData(t) ==
    /\ worker_pc[t] = "l44"
    /\ g_data_mutex = 0
    /\ g_data_mutex' = t
    /\ worker_pc' = [worker_pc EXCEPT ![t] = "l45"]
    /\ UNCHANGED <<g_cout_mutex, g_shared_data, worker_reg, worker_printed, mutex_main>>
    /\ UNCHANGED ul_vars
    /\ UNCHANGED not_mutex

\* Line 45, g_shared_data++ on a plain int: the value is loaded ...
LoadShared(t) ==
    /\ worker_pc[t] = "l45"
    /\ worker_reg' = [worker_reg EXCEPT ![t] = g_shared_data]
    /\ worker_pc' = [worker_pc EXCEPT ![t] = "l45_store"]
    /\ UNCHANGED <<g_cout_mutex, g_data_mutex, g_shared_data, worker_printed, mutex_main>>
    /\ UNCHANGED ul_vars
    /\ UNCHANGED not_mutex

\* ... and the value plus one is stored; then the sleep of line 46.
StoreShared(t) ==
    /\ worker_pc[t] = "l45_store"
    /\ g_shared_data' = worker_reg[t] + 1
    /\ worker_pc' = [worker_pc EXCEPT ![t] = "l49"]
    /\ UNCHANGED <<g_cout_mutex, g_data_mutex, worker_reg, worker_printed, mutex_main>>
    /\ UNCHANGED ul_vars
    /\ UNCHANGED not_mutex

\* Line 49: the constructor of cout_lock_again blocks until g_cout_mutex is
\* free and locks it.
RelockCout(t) ==
    /\ worker_pc[t] = "l49"
    /\ g_cout_mutex = 0
    /\ g_cout_mutex' = t
    /\ worker_pc' = [worker_pc EXCEPT ![t] = "l50"]
    /\ UNCHANGED <<g_data_mutex, g_shared_data, worker_reg, worker_printed, mutex_main>>
    /\ UNCHANGED ul_vars
    /\ UNCHANGED not_mutex

\* Line 50: the worker prints the value of g_shared_data.
PrintShared(t) ==
    /\ worker_pc[t] = "l50"
    /\ worker_printed' = [worker_printed EXCEPT ![t] = g_shared_data]
    /\ worker_pc' = [worker_pc EXCEPT ![t] = "l52"]
    /\ UNCHANGED <<g_cout_mutex, g_data_mutex, g_shared_data, worker_reg, mutex_main>>
    /\ UNCHANGED ul_vars
    /\ UNCHANGED not_mutex

\* Line 52, the end of the block: the destructor of cout_lock_again releases
\* g_cout_mutex ...
UnlockCoutAgain(t) ==
    /\ worker_pc[t] = "l52"
    /\ g_cout_mutex' = 0
    /\ worker_pc' = [worker_pc EXCEPT ![t] = "l52_data"]
    /\ UNCHANGED <<g_data_mutex, g_shared_data, worker_reg, worker_printed, mutex_main>>
    /\ UNCHANGED ul_vars
    /\ UNCHANGED not_mutex

\* ... and then the destructor of data_lock releases g_data_mutex.
UnlockData(t) ==
    /\ worker_pc[t] = "l52_data"
    /\ g_data_mutex' = 0
    /\ worker_pc' = [worker_pc EXCEPT ![t] = "l57"]
    /\ UNCHANGED <<g_cout_mutex, g_shared_data, worker_reg, worker_printed, mutex_main>>
    /\ UNCHANGED ul_vars
    /\ UNCHANGED not_mutex

\* Line 57, the end of the function: the destructor of cout_lock.  A guard
\* that knows line 41 released the mutex does nothing; one that does not
\* unlocks g_cout_mutex once more, whoever holds it (undefined behaviour for
\* std::mutex).  Both outcomes are kept.
WorkerReturn(t) ==
    /\ worker_pc[t] = "l57"
    /\ \E unlocks_again \in BOOLEAN :
         g_cout_mutex' = IF unlocks_again THEN 0 ELSE g_cout_mutex
    /\ worker_pc' = [worker_pc EXCEPT ![t] = "done"]
    /\ UNCHANGED <<g_data_mutex, g_shared_data, worker_reg, worker_printed, mutex_main>>
    /\ UNCHANGED ul_vars
    /\ UNCHANGED not_mutex

critical_section_worker(t) ==
    \/ LockCout(t)
    \/ AnnounceAndUnlock(t)
    \/ LockData(t)
    \/ LoadShared(t)
    \/ StoreShared(t)
    \/ RelockCout(t)
    \/ PrintShared(t)
    \/ UnlockCoutAgain(t)
    \/ UnlockData(t)
    \/ WorkerReturn(t)

\* The owner of a mutex that unique_lock_demo holds.
UniqueLockThread == NumWorkers + 1

\* std::thread t_unique_lock(unique_lock_demo).
MainSpawnUnique ==
    /\ mutex_main.pc = "l153"
    /\ ul_pc' = "l63"
    /\ mutex_main' = [mutex_main EXCEPT !.pc = "l154"]
    /\ UNCHANGED <<ul_owns, ul_try>>
    /\ UNCHANGED <<g_cout_mutex, g_data_mutex, g_shared_data, worker_pc, worker_reg, worker_printed>>
    /\ UNCHANGED not_mutex

\* t_unique_lock.join().
MainJoinUnique ==
    /\ mutex_main.pc = "l154"
    /\ ul_pc = "done"
    /\ mutex_main' = [mutex_main EXCEPT !.pc = "done"]
    /\ UNCHANGED ul_vars
    /\ UNCHANGED <<g_cout_mutex, g_data_mutex, g_shared_data, worker_pc, worker_reg, worker_printed>>
    /\ UNCHANGED not_mutex

MutexMain ==
    \/ MainReset
    \/ MainSpawn
    \/ MainJoin
    \/ MainPrint
    \/ MainSpawnUnique
    \/ MainJoinUnique

\* Line 63: lock(g_data_mutex, std::defer_lock) does not lock.
DeferLock ==
    /\ ul_pc = "l63"
    /\ ul_owns' = FALSE
    /\ ul_pc' = "l66"
    /\ UNCHANGED ul_try
    /\ UNCHANGED <<g_cout_mutex, g_data_mutex, g_shared_data, worker_pc, worker_reg, worker_printed, mutex_main>>
    /\ UNCHANGED not_mutex

\* The constructor of a std::lock_guard on g_cout_mutex at lines 66, 71, 76
\* and 81: it blocks until the mutex is free and locks it.
UniqueLockCout ==
    /\ ul_pc \in {"l66", "l71", "l76", "l81"}
    /\ g_cout_mutex = 0
    /\ g_cout_mutex' = UniqueLockThread
    /\ ul_pc' = CASE ul_pc = "l66" -> "l67"
                  [] ul_pc = "l71" -> "l72"
                  [] ul_pc = "l76" -> "l77"
                  [] ul_pc = "l81" -> "l82"
    /\ UNCHANGED <<ul_owns, ul_try>>
    /\ UNCHANGED <<g_data_mutex, g_shared_data, worker_pc, worker_reg, worker_printed, mutex_main>>
    /\ UNCHANGED not_mutex

\* Lines 67 and 68, and lines 77 and 78: the message, and the end of the
\* block releases g_cout_mutex.
UniquePrintAndUnlock ==
    /\ ul_pc \in {"l67", "l77"}
    /\ g_cout_mutex' = 0
    /\ ul_pc' = IF ul_pc = "l67" THEN "l70" ELSE "l80"
    /\ UNCHANGED <<ul_owns, ul_try>>
    /\ UNCHANGED <<g_data_mutex, g_shared_data, worker_pc, worker_reg, worker_printed, mutex_main>>
    /\ UNCHANGED not_mutex

\* Line 70, lock.try_lock(): it locks g_data_mutex when the mutex is free and
\* never blocks; it may fail though the mutex is free.
TryLock ==
    /\ ul_pc = "l70"
    /\ \E acquired \in (IF g_data_mutex = 0 THEN BOOLEAN ELSE {FALSE}) :
         /\ g_data_mutex' = IF acquired THEN UniqueLockThread ELSE g_data_mutex
         /\ ul_owns' = acquired
         /\ ul_try' = IF acquired THEN "acquired" ELSE "failed"
         /\ ul_pc' = IF acquired THEN "l71" ELSE "l76"
    /\ UNCHANGED <<g_cout_mutex, g_shared_data, worker_pc, worker_reg, worker_printed, mutex_main>>
    /\ UNCHANGED not_mutex

\* Lines 72 and 73: the message, and lock.unlock() releases g_data_mutex while
\* g_cout_mutex is held.
UniqueManualUnlock ==
    /\ ul_pc = "l72"
    /\ g_data_mutex' = 0
    /\ ul_owns' = FALSE
    /\ ul_pc' = "l74"
    /\ UNCHANGED ul_try
    /\ UNCHANGED <<g_cout_mutex, g_shared_data, worker_pc, worker_reg, worker_printed, mutex_main>>
    /\ UNCHANGED not_mutex

\* Lines 74 and 75: the message, and the end of the branch releases
\* g_cout_mutex.
UniqueBranchEnd ==
    /\ ul_pc = "l74"
    /\ g_cout_mutex' = 0
    /\ ul_pc' = "l80"
    /\ UNCHANGED <<ul_owns, ul_try>>
    /\ UNCHANGED <<g_data_mutex, g_shared_data, worker_pc, worker_reg, worker_printed, mutex_main>>
    /\ UNCHANGED not_mutex

\* Line 80, lock.lock(): blocks until g_data_mutex is free and locks it.
UniqueRelock ==
    /\ ul_pc = "l80"
    /\ g_data_mutex = 0
    /\ g_data_mutex' = UniqueLockThread
    /\ ul_owns' = TRUE
    /\ ul_pc' = "l81"
    /\ UNCHANGED ul_try
    /\ UNCHANGED <<g_cout_mutex, g_shared_data, worker_pc, worker_reg, worker_printed, mutex_main>>
    /\ UNCHANGED not_mutex

\* Lines 82 to 84: the message, and at the end of the function the destructor
\* of cout_lock releases g_cout_mutex ...
UniqueUnlockCout ==
    /\ ul_pc = "l82"
    /\ g_cout_mutex' = 0
    /\ ul_pc' = "l84"
    /\ UNCHANGED <<ul_owns, ul_try>>
    /\ UNCHANGED <<g_data_mutex, g_shared_data, worker_pc, worker_reg, worker_printed, mutex_main>>
    /\ UNCHANGED not_mutex

\* ... and then the destructor of lock releases g_data_mutex, which it owns.
UniqueReturn ==
    /\ ul_pc = "l84"
    /\ g_data_mutex' = IF ul_owns THEN 0 ELSE g_data_mutex
    /\ ul_owns' = FALSE
    /\ ul_pc' = "done"
    /\ UNCHANGED ul_try
    /\ UNCHANGED <<g_cout_mutex, g_shared_data, worker_pc, worker_reg, worker_printed, mutex_main>>
    /\ UNCHANGED not_mutex

unique_lock_demo ==
    \/ DeferLock
    \/ UniqueLockCout
    \/ UniquePrintAndUnlock
    \/ TryLock
    \/ UniqueManualUnlock
    \/ UniqueBranchEnd
    \/ UniqueRelock
    \/ UniqueUnlockCout
    \/ UniqueReturn

MutexNext ==
    \/ MutexMain
    \/ \E t \in Workers : critical_section_worker(t)
    \/ unique_lock_demo

MutexSpec == MutexInit /\ [][MutexNext]_vars

\* The threads are scheduled by the operating system: a thread that can take
\* a step takes one.
MutexFairSpec ==
    /\ MutexSpec
    /\ WF_vars(MutexMain)
    /\ \A t \in Workers : WF_vars(critical_section_worker(t))
    /\ WF_vars(unique_lock_demo)

\* The values the variables of the mutex demonstration take.
MutexTypeOK ==
    /\ g_cout_mutex \in 0..UniqueLockThread
    /\ g_data_mutex \in 0..UniqueLockThread
    /\ g_shared_data \in 0..NumWorkers
    /\ worker_pc \in [Workers -> {"none", "l39", "l40", "l44", "l45", "l45_store",
                                  "l49", "l50", "l52", "l52_data", "l57", "done"}]
    /\ worker_reg \in [Workers -> 0..NumWorkers]
    /\ worker_printed \in [Workers -> 0..NumWorkers]
    /\ mutex_main.pc \in {"idle", "l142", "l144", "l150", "l153", "l154", "done"}
    /\ ul_pc \in {"none", "l63", "l66", "l67", "l70", "l71", "l72", "l74", "l76",
                  "l77", "l80", "l81", "l82", "l84", "done"}
    /\ ul_owns \in BOOLEAN
    /\ ul_owns <=> g_data_mutex = UniqueLockThread
    /\ ul_try \in {"none", "acquired", "failed"}
    /\ mutex_main.i \in 0..NumWorkers
    /\ mutex_main.final \in 0..NumWorkers

\* The workers between the acquisition and the release of g_data_mutex.
InCriticalSection ==
    {t \in Workers :
        worker_pc[t] \in {"l45", "l45_store", "l49", "l50", "l52", "l52_data"}}

\* C16: mutual exclusion on g_shared_data.  Under every interleaving at most
\* one worker is between the acquisition and the release of g_data_mutex, and
\* it is the holder of the mutex; no increment is lost: the counter is the
\* number of workers that have stored their increment, and it is NumWorkers
\* when all have returned and when main prints it; and the values the workers
\* print are distinct and are, at the end, exactly 1..NumWorkers.
C16_MutualExclusion ==
    /\ Cardinality(InCriticalSection) <= 1
    /\ \A t \in InCriticalSection : g_data_mutex = t
    /\ g_shared_data =
           Cardinality({t \in Workers :
               worker_pc[t] \in {"l49", "l50", "l52", "l52_data", "l57", "done"}})
    /\ \A t, u \in Workers :
           (t # u /\ worker_printed[t] # 0) => worker_printed[t] # worker_printed[u]
    /\ (\A t \in Workers : worker_pc[t] = "done")
       => /\ g_shared_data = NumWorkers
          /\ {worker_printed[t] : t \in Workers} = 1..NumWorkers
    /\ mutex_main.pc = "done" => mutex_main.final = NumWorkers

\* The three workers have returned, in the order 2, 3, 1 through the critical
\* section, and main has printed 3.
C16_Witness ==
    /\ mutex_main.pc = "done"
    /\ mutex_main.final = NumWorkers
    /\ \A t \in Workers : worker_pc[t] = "done"
    /\ worker_printed[2] = 1
    /\ worker_printed[1] = NumWorkers

\* --------------------------------------------- part_005: MutexGuard demo
\*
\* main starts NumGuardThreads threads on worker_thread_function(1 ..
\* NumGuardThreads), joins them and prints shared_data.  The thread with id 2
\* throws inside its critical section.

GuardInit ==
    /\ CsvIdle
    /\ MutexIdle
    /\ DmIdle
    /\ MsIdle
    /\ PromiseIdle
    /\ shared_data_mutex = 0
    /\ shared_data = 0
    /\ guard_locked = [t \in GuardThreads |-> FALSE]
    /\ guard_pc = [t \in GuardThreads |-> "none"]
    /\ guard_reg = [t \in GuardThreads |-> 0]
    /\ guard_caught = [t \in GuardThreads |-> FALSE]
    /\ guard_main = [pc |-> "l160", i |-> 1, final |-> 0]

\* One iteration of the loop that starts the threads: thread i starts at the
\* first statement of worker_thread_function.
GuardMainSpawn ==
    /\ guard_main.pc = "l160"
    /\ guard_main.i <= NumGuardThreads
    /\ guard_pc' = [guard_pc EXCEPT ![guard_main.i] = "l110"]
    /\ guard_main' = [guard_main EXCEPT !.i = @ + 1]
    /\ UNCHANGED <<shared_data_mutex, shared_data, guard_locked, guard_reg, guard_caught>>
    /\ UNCHANGED not_guard

\* The end of that loop and the loop of joins: main goes on when every thread
\* has returned.
GuardMainJoin ==
    /\ guard_main.pc = "l160"
    /\ guard_main.i > NumGuardThreads
    /\ \A t \in GuardThreads : guard_pc[t] = "done"
    /\ guard_main' = [guard_main EXCEPT !.pc = "l168"]
    /\ UNCHANGED <<shared_data_mutex, shared_data, guard_locked, guard_pc, guard_reg, guard_caught>>
    /\ UNCHANGED not_guard

\* main prints Final shared_data.
GuardMainPrint ==
    /\ guard_main.pc = "l168"
    /\ guard_main' = [guard_main EXCEPT !.pc = "done", !.final = shared_data]
    /\ UNCHANGED <<shared_data_mutex, shared_data, guard_locked, guard_pc, guard_reg, guard_caught>>
    /\ UNCHANGED not_guard

\* Line 110: the thread announces that it tries to lock the mutex.
Announce(t) ==
    /\ guard_pc[t] = "l110"
    /\ guard_pc' = [guard_pc EXCEPT ![t] = "l111"]
    /\ UNCHANGED <<shared_data_mutex, shared_data, guard_locked, guard_reg, guard_caught, guard_main>>
    /\ UNCHANGED not_guard

\* Line 111, the constructor of MutexGuard: mtx.lock() blocks until the mutex
\* is free and locks it, then locked = true.
MutexGuard_ctor(t) ==
    /\ guard_pc[t] = "l111"
    /\ shared_data_mutex = 0
    /\ shared_data_mutex' = t
    /\ guard_locked' = [guard_locked EXCEPT ![t] = TRUE]
    /\ guard_pc' = [guard_pc EXCEPT ![t] = "l115"]
    /\ UNCHANGED <<shared_data, guard_reg, guard_caught, guard_main>>
    /\ UNCHANGED not_guard

\* Line 115, shared_data++ on a plain int: the value is loaded ...
IncrementLoad(t) ==
    /\ guard_pc[t] = "l115"
    /\ guard_reg' = [guard_reg EXCEPT ![t] = shared_data]
    /\ guard_pc' = [guard_pc EXCEPT ![t] = "l115_store"]
    /\ UNCHANGED <<shared_data_mutex, shared_data, guard_locked, guard_caught, guard_main>>
    /\ UNCHANGED not_guard

\* ... and the value plus one is stored; then the message and the sleep.
IncrementStore(t) ==
    /\ guard_pc[t] = "l115_store"
    /\ shared_data' = guard_reg[t] + 1
    /\ guard_pc' = [guard_pc EXCEPT ![t] = "l121"]
    /\ UNCHANGED <<shared_data_mutex, guard_locked, guard_reg, guard_caught, guard_main>>
    /\ UNCHANGED not_guard

\* Lines 121 to 125: the thread with id 2 throws, which starts the unwinding
\* of the try block; every other thread prints that it finished and reaches
\* the end of the try block.
ThrowOrFinish(t) ==
    /\ guard_pc[t] = "l121"
    /\ guard_pc' = [guard_pc EXCEPT ![t] = IF t = ThrowingId THEN "unwind"
                                           ELSE "scope_end"]
    /\ UNCHANGED <<shared_data_mutex, shared_data, guard_locked, guard_reg, guard_caught, guard_main>>
    /\ UNCHANGED not_guard

\* The release of a guard that is written at the end of the block instead of
\* in a destructor: it is not reached when the block is left by an exception.
MutexGuard_dtor_at_scope_end_only(t) ==
    /\ guard_pc[t] \in {"unwind", "scope_end"}
    /\ shared_data_mutex' = IF guard_locked[t] /\ guard_pc[t] = "scope_end"
                            THEN 0 ELSE shared_data_mutex
    /\ guard_pc' = [guard_pc EXCEPT ![t] = IF @ = "unwind" THEN "catch" ELSE "done"]
    /\ UNCHANGED <<shared_data, guard_locked, guard_reg, guard_caught, guard_main>>
    /\ UNCHANGED not_guard

\* The destructor of MutexGuard, which runs when lock goes out of scope: at
\* the end of the try block, after which the function returns, and during
\* the unwinding of the try block, after which the catch clause runs.  It
\* unlocks the mutex if locked.
MutexGuard_dtor(t) ==
    /\ guard_pc[t] \in {"unwind", "scope_end"}
    /\ shared_data_mutex' = IF guard_locked[t] THEN 0 ELSE shared_data_mutex
    /\ guard_pc' = [guard_pc EXCEPT ![t] = IF @ = "unwind" THEN "catch" ELSE "done"]
    /\ UNCHANGED <<shared_data, guard_locked, guard_reg, guard_caught, guard_main>>
    /\ UNCHANGED not_guard

\* Lines 127 to 131: the catch clause prints the exception and the function
\* returns.
Catch(t) ==
    /\ guard_pc[t] = "catch"
    /\ guard_caught' = [guard_caught EXCEPT ![t] = TRUE]
    /\ guard_pc' = [guard_pc EXCEPT ![t] = "done"]
    /\ UNCHANGED <<shared_data_mutex, shared_data, guard_locked, guard_reg, guard_main>>
    /\ UNCHANGED not_guard

worker_thread_function(t) ==
    \/ Announce(t)
    \/ MutexGuard_ctor(t)
    \/ IncrementLoad(t)
    \/ IncrementStore(t)
    \/ ThrowOrFinish(t)
    \/ MutexGuard_dtor(t)
    \/ Catch(t)

GuardMain ==
    \/ GuardMainSpawn
    \/ GuardMainJoin
    \/ GuardMainPrint

GuardNext ==
    \/ GuardMain
    \/ \E t \in GuardThreads : worker_thread_function(t)

GuardSpec == GuardInit /\ [][GuardNext]_vars

\* The scheduler runs every thread that can take a step: main and every
\* worker go on when they are continuously able to.
GuardFairSpec ==
    /\ GuardSpec
    /\ WF_vars(GuardMain)
    /\ \A t \in GuardThreads : WF_vars(worker_thread_function(t))

\* The values the variables of the MutexGuard demonstration take.
GuardTypeOK ==
    /\ shared_data_mutex \in 0..NumGuardThreads
    /\ shared_data \in 0..NumGuardThreads
    /\ guard_locked \in [GuardThreads -> BOOLEAN]
    /\ guard_pc \in [GuardThreads -> {"none", "l110", "l111", "l115", "l115_store",
                                      "l121", "unwind", "scope_end", "catch", "done"}]
    /\ guard_reg \in [GuardThreads -> 0..NumGuardThreads]
    /\ guard_caught \in [GuardThreads -> BOOLEAN]
    /\ guard_main.pc \in {"idle", "l160", "l168", "done"}
    /\ guard_main.i \in 1..(NumGuardThreads + 1)
    /\ guard_main.final \in 0..NumGuardThreads

\* The threads whose guard is alive: constructed and not yet destroyed.
GuardAlive ==
    {t \in GuardThreads :
        guard_pc[t] \in {"l115", "l115_store", "l121", "unwind", "scope_end"}}

\* C17: MutexGuard releases the mutex on every exit from its scope.  A thread
\* holds the mutex exactly while its guard is alive, so the mutex is released
\* when the thread is past the end of the try block and also when it is in
\* or past its catch clause, which only the thread with id 2 enters.  Under a
\* fair scheduler every thread therefore acquires the mutex at some time, all
\* threads return and main prints the number of threads as the final value of
\* shared_data.
C17_GuardReleases ==
    /\ [](/\ \A t \in GuardThreads : shared_data_mutex = t <=> t \in GuardAlive
          /\ \A t \in GuardThreads :
                 guard_pc[t] \in {"catch", "done"} => shared_data_mutex # t
          /\ \A t \in GuardThreads : guard_caught[t] => t = ThrowingId
          /\ (\A t \in GuardThreads : guard_pc[t] = "done")
             => /\ shared_data = NumGuardThreads
                /\ shared_data_mutex = 0
                /\ guard_caught[ThrowingId]
          /\ guard_main.pc = "done" => guard_main.final = NumGuardThreads)
    /\ \A t \in GuardThreads : <>(guard_locked[t])
    /\ <>(guard_main.pc = "done")

\* The thread with id 2 was the first in the critical section, threw and
\* caught its exception; thread 1 and thread 3 entered after it, and main has
\* printed 3.
C17_Witness ==
    /\ guard_main.pc = "done"
    /\ guard_main.final = NumGuardThreads
    /\ guard_caught[ThrowingId]
    /\ guard_reg[ThrowingId] = 0
    /\ guard_reg[1] = NumGuardThreads - 1
    /\ \A t \in GuardThreads : guard_locked[t] /\ guard_pc[t] = "done"

\* --------------------------------- part_004: exception safety of updates
\*
\* main constructs a DataManager, sets Resource::copy_throw_countdown and
\* calls an update in a try block, up to MaxCalls times, and returns, which
\* destroys the DataManager.  The backups handed to the update are the first
\* nb Resources of initial_backups, with the ids 101, 102, ...

\* The copy constructor of Resource, lines 20 to 29: whether it throws, and
\* the countdown after the call.
Resource_copy(countdown) ==
    IF countdown > 0
    THEN [throws |-> countdown - 1 = 0, countdown |-> countdown - 1]
    ELSE [throws |-> FALSE, countdown |-> countdown]

\* new Resource(...) once its constructor has returned: the heap with the
\* Resource at the next address.
New(h, id) == Append(h, [id |-> id, deleted |-> 0])

\* delete p: nothing for nullptr.
Delete(h, p) == IF p = 0 THEN h ELSE [h EXCEPT ![p].deleted = @ + 1]

\* for (Resource* r : list) delete r
RECURSIVE DeleteAll(_, _)
DeleteAll(h, list) ==
    IF list = <<>> THEN h ELSE DeleteAll(Delete(h, Head(list)), Tail(list))

\* The id of element k of initial_backups.
BackupId(k) == 100 + k

DmInit ==
    /\ CsvIdle
    /\ MutexIdle
    /\ GuardIdle
    /\ PromiseIdle
    /\ MsIdle
    /\ heap = <<>>
    /\ copy_throw_countdown = 0
    /\ main_res = 0 /\ backup_res_list = <<>>
    /\ temp_main_res = 0 /\ temp_backup_res_list = <<>>
    /\ new_main_res = 0 /\ new_backup_list = <<>>
    /\ dm_pc = "main"
    /\ dm_call = NoCall
    /\ dm_before = NoSnapshot
    /\ dm_calls = 0

\* main sets the countdown and calls an update.
DmCall ==
    /\ dm_pc = "main"
    /\ dm_calls < MaxCalls
    /\ \E method \in {"no_safety", "basic_safety", "strong_safety"},
          c \in Countdowns, nb \in 0..MaxBackups :
         /\ copy_throw_countdown' = c
         /\ dm_call' = [method |-> method, id |-> dm_calls + 1, nb |-> nb,
                        countdown |-> c, threw |-> FALSE, thrown_at |-> 0]
         /\ dm_pc' = method
    /\ dm_before' = [main_res |-> main_res, backup_res_list |-> backup_res_list,
                     heap |-> heap]
    /\ dm_calls' = dm_calls + 1
    /\ UNCHANGED <<heap, main_res, backup_res_list, temp_main_res,
                   temp_backup_res_list, new_main_res, new_backup_list>>
    /\ UNCHANGED not_dm

\* main returns: the destructor of the DataManager deletes what it owns.
DmDestroy ==
    /\ dm_pc = "main"
    /\ heap' = DeleteAll(Delete(heap, main_res), backup_res_list)
    /\ dm_pc' = "done"
    /\ UNCHANGED <<copy_throw_countdown, main_res, backup_res_list, temp_main_res,
                   temp_backup_res_list, new_main_res, new_backup_list,
                   dm_call, dm_before, dm_calls>>
    /\ UNCHANGED not_dm

\* ---- update_no_safety

\* Lines 75 to 78: the old main resource is deleted and the new one made by
\* the constructor of line 16, which does not touch the countdown.
NoSafety_NewMain ==
    /\ dm_pc = "no_safety"
    /\ LET h == New(Delete(heap, main_res), dm_call.id)
       IN  /\ heap' = h
           /\ main_res' = Len(h)
    /\ dm_pc' = "no_safety_clear"
    /\ UNCHANGED <<copy_throw_countdown, backup_res_list, temp_main_res,
                   temp_backup_res_list, new_main_res, new_backup_list,
                   dm_call, dm_before, dm_calls>>
    /\ UNCHANGED not_dm

\* Lines 81 and 82: the old backups are deleted and the list is cleared.
NoSafety_Clear ==
    /\ dm_pc = "no_safety_clear"
    /\ heap' = DeleteAll(heap, backup_res_list)
    /\ backup_res_list' = <<>>
    /\ dm_pc' = "no_safety_copy"
    /\ UNCHANGED <<copy_throw_countdown, main_res, temp_main_res,
                   temp_backup_res_list, new_main_res, new_backup_list,
                   dm_call, dm_before, dm_calls>>
    /\ UNCHANGED not_dm

\* Lines 85 to 87, one iteration: the next backup is copied into a new
\* Resource, which is pushed to backup_res_list.  When the copy constructor
\* throws, the new expression frees the memory and the catch clause is next.
NoSafety_Copy ==
    /\ dm_pc = "no_safety_copy"
    /\ Len(backup_res_list) < dm_call.nb
    /\ LET k == Len(backup_res_list) + 1
           r == Resource_copy(copy_throw_countdown)
       IN  /\ copy_throw_countdown' = r.countdown
           /\ IF r.throws
              THEN /\ dm_call' = [dm_call EXCEPT !.thrown_at = k]
                   /\ dm_pc' = "no_safety_catch"
                   /\ UNCHANGED <<heap, backup_res_list>>
              ELSE /\ heap' = New(heap, BackupId(k))
                   /\ backup_res_list' = Append(backup_res_list, Len(heap) + 1)
                   /\ UNCHANGED <<dm_call, dm_pc>>
    /\ UNCHANGED <<main_res, temp_main_res, temp_backup_res_list, new_main_res,
                   new_backup_list, dm_before, dm_calls>>
    /\ UNCHANGED not_dm

\* Line 95: the loop is over and the update returns to main.
NoSafety_Return ==
    /\ dm_pc = "no_safety_copy"
    /\ Len(backup_res_list) >= dm_call.nb
    /\ dm_pc' = "main"
    /\ UNCHANGED <<heap, copy_throw_countdown, main_res, backup_res_list,
                   temp_main_res, temp_backup_res_list, new_main_res,
                   new_backup_list, dm_call, dm_before, dm_calls>>
    /\ UNCHANGED not_dm

\* Lines 88 to 94: the catch clause rethrows, and main catches.
NoSafety_Catch ==
    /\ dm_pc = "no_safety_catch"
    /\ dm_call' = [dm_call EXCEPT !.threw = TRUE]
    /\ dm_pc' = "main"
    /\ UNCHANGED <<heap, copy_throw_countdown, main_res, backup_res_list,
                   temp_main_res, temp_backup_res_list, new_main_res,
                   new_backup_list, dm_before, dm_calls>>
    /\ UNCHANGED not_dm

update_no_safety ==
    \/ NoSafety_NewMain
    \/ NoSafety_Clear
    \/ NoSafety_Copy
    \/ NoSafety_Return
    \/ NoSafety_Catch

\* ---- update_basic_safety

\* Line 110, stage 1: the new main resource, made by the constructor of
\* line 16.
Basic_NewMain ==
    /\ dm_pc = "basic_safety"
    /\ heap' = New(heap, dm_call.id)
    /\ temp_main_res' = Len(heap) + 1
    /\ dm_pc' = "basic_safety_copy"
    /\ UNCHANGED <<copy_throw_countdown, main_res, backup_res_list,
                   temp_backup_res_list, new_main_res, new_backup_list,
                   dm_call, dm_before, dm_calls>>
    /\ UNCHANGED not_dm

\* Lines 113 to 115, stage 2, one iteration: the next backup is copied into
\* a new Resource, which is pushed to temp_backup_res_list.
Basic_Copy ==
    /\ dm_pc = "basic_safety_copy"
    /\ Len(temp_backup_res_list) < dm_call.nb
    /\ LET k == Len(temp_backup_res_list) + 1
           r == Resource_copy(copy_throw_countdown)
       IN  /\ copy_throw_countdown' = r.countdown
           /\ IF r.throws
              THEN /\ dm_call' = [dm_call EXCEPT !.thrown_at = k]
                   /\ dm_pc' = "basic_safety_catch"
                   /\ UNCHANGED <<heap, temp_backup_res_list>>
              ELSE /\ heap' = New(heap, BackupId(k))
                   /\ temp_backup_res_list' =
                          Append(temp_backup_res_list, Len(heap) + 1)
                   /\ UNCHANGED <<dm_call, dm_pc>>
    /\ UNCHANGED <<main_res, backup_res_list, temp_main_res, new_main_res,
                   new_backup_list, dm_before, dm_calls>>
    /\ UNCHANGED not_dm

\* Lines 119 to 128, stage 3: the old main resource is deleted and replaced,
\* the old backups are deleted and the list takes the new ones; the update
\* returns, which ends the life of the locals.
Basic_Commit ==
    /\ dm_pc = "basic_safety_copy"
    /\ Len(temp_backup_res_list) >= dm_call.nb
    /\ heap' = DeleteAll(Delete(heap, main_res), backup_res_list)
    /\ main_res' = temp_main_res
    /\ backup_res_list' = temp_backup_res_list
    /\ temp_main_res' = 0
    /\ temp_backup_res_list' = <<>>
    /\ dm_pc' = "main"
    /\ UNCHANGED <<copy_throw_countdown, new_main_res, new_backup_list,
                   dm_call, dm_before, dm_calls>>
    /\ UNCHANGED not_dm

\* Basic_Catch that deletes the temporary backups and forgets the temporary
\* main resource.
Basic_Catch_backups_only ==
    /\ dm_pc = "basic_safety_catch"
    /\ heap' = DeleteAll(heap, temp_backup_res_list)
    /\ temp_main_res' = 0
    /\ temp_backup_res_list' = <<>>
    /\ dm_call' = [dm_call EXCEPT !.threw = TRUE]
    /\ dm_pc' = "main"
    /\ UNCHANGED <<copy_throw_countdown, main_res, backup_res_list,
                   new_main_res, new_backup_list, dm_before, dm_calls>>
    /\ UNCHANGED not_dm

\* Lines 130 to 137: the catch clause deletes the temporary main resource and
\* the temporary backups and rethrows; main catches.
Basic_Catch ==
    /\ dm_pc = "basic_safety_catch"
    /\ heap' = DeleteAll(Delete(heap, temp_main_res), temp_backup_res_list)
    /\ temp_main_res' = 0
    /\ temp_backup_res_list' = <<>>
    /\ dm_call' = [dm_call EXCEPT !.threw = TRUE]
    /\ dm_pc' = "main"
    /\ UNCHANGED <<copy_throw_countdown, main_res, backup_res_list,
                   new_main_res, new_backup_list, dm_before, dm_calls>>
    /\ UNCHANGED not_dm

update_basic_safety ==
    \/ Basic_NewMain
    \/ Basic_Copy
    \/ Basic_Commit
    \/ Basic_Catch

\* ---- update_strong_safety

\* Line 170, phase 1: the new main resource, made by the constructor of
\* line 16.
Strong_NewMain ==
    /\ dm_pc = "strong_safety"
    /\ heap' = New(heap, dm_call.id)
    /\ new_main_res' = Len(heap) + 1
    /\ dm_pc' = "strong_safety_copy"
    /\ UNCHANGED <<copy_throw_countdown, main_res, backup_res_list,
                   temp_main_res, temp_backup_res_list, new_backup_list,
                   dm_call, dm_before, dm_calls>>
    /\ UNCHANGED not_dm

\* Strong_Copy of an update that builds the new backups in the list of the
\* DataManager itself instead of in new_backup_list.
Strong_Copy_in_place ==
    /\ dm_pc = "strong_safety_copy"
    /\ Len(new_backup_list) < dm_call.nb
    /\ LET k == Len(new_backup_list) + 1
           r == Resource_copy(copy_throw_countdown)
       IN  /\ copy_throw_countdown' = r.countdown
           /\ IF r.throws
              THEN /\ dm_call' = [dm_call EXCEPT !.thrown_at = k]
                   /\ dm_pc' = "strong_safety_catch"
                   /\ UNCHANGED <<heap, new_backup_list, backup_res_list>>
              ELSE /\ heap' = New(heap, BackupId(k))
                   /\ new_backup_list' = Append(new_backup_list, Len(heap) + 1)
                   /\ backup_res_list' = Append(backup_res_list, Len(heap) + 1)
                   /\ UNCHANGED <<dm_call, dm_pc>>
    /\ UNCHANGED <<main_res, temp_main_res, temp_backup_res_list,
                   new_main_res, dm_before, dm_calls>>
    /\ UNCHANGED not_dm

\* Lines 171 to 173, phase 1, one iteration: the next backup is copied into
\* a new Resource, which is pushed to new_backup_list.
Strong_Copy ==
    /\ dm_pc = "strong_safety_copy"
    /\ Len(new_backup_list) < dm_call.nb
    /\ LET k == Len(new_backup_list) + 1
           r == Resource_copy(copy_throw_countdown)
       IN  /\ copy_throw_countdown' = r.countdown
           /\ IF r.throws
              THEN /\ dm_call' = [dm_call EXCEPT !.thrown_at = k]
                   /\ dm_pc' = "strong_safety_catch"
                   /\ UNCHANGED <<heap, new_backup_list>>
              ELSE /\ heap' = New(heap, BackupId(k))
                   /\ new_backup_list' = Append(new_backup_list, Len(heap) + 1)
                   /\ UNCHANGED <<dm_call, dm_pc>>
    /\ UNCHANGED <<main_res, backup_res_list, temp_main_res,
                   temp_backup_res_list, new_main_res, dm_before, dm_calls>>
    /\ UNCHANGED not_dm

\* Lines 177 and 178, phase 2: the state of the DataManager and the new state
\* are swapped.
Strong_Swap ==
    /\ dm_pc = "strong_safety_copy"
    /\ Len(new_backup_list) >= dm_call.nb
    /\ main_res' = new_main_res
    /\ new_main_res' = main_res
    /\ backup_res_list' = new_backup_list
    /\ new_backup_list' = backup_res_list
    /\ dm_pc' = "strong_safety_cleanup"
    /\ UNCHANGED <<heap, copy_throw_countdown, temp_main_res,
                   temp_backup_res_list, dm_call, dm_before, dm_calls>>
    /\ UNCHANGED not_dm

\* Lines 181 to 184, phase 3: the old state, now in the locals, is deleted;
\* the update returns, which ends the life of the locals.
Strong_DeleteOld ==
    /\ dm_pc = "strong_safety_cleanup"
    /\ heap' = DeleteAll(Delete(heap, new_main_res), new_backup_list)
    /\ new_main_res' = 0
    /\ new_backup_list' = <<>>
    /\ dm_pc' = "main"
    /\ UNCHANGED <<copy_throw_countdown, main_res, backup_res_list,
                   temp_main_res, temp_backup_res_list, dm_call, dm_before,
                   dm_calls>>
    /\ UNCHANGED not_dm

\* Lines 186 to 193: the catch clause deletes the new main resource and the
\* new backups and rethrows; main catches.
Strong_Catch ==
    /\ dm_pc = "strong_safety_catch"
    /\ heap' = DeleteAll(Delete(heap, new_main_res), new_backup_list)
    /\ new_main_res' = 0
    /\ new_backup_list' = <<>>
    /\ dm_call' = [dm_call EXCEPT !.threw = TRUE]
    /\ dm_pc' = "main"
    /\ UNCHANGED <<copy_throw_countdown, main_res, backup_res_list,
                   temp_main_res, temp_backup_res_list, dm_before, dm_calls>>
    /\ UNCHANGED not_dm

update_strong_safety ==
    \/ Strong_NewMain
    \/ Strong_Copy
    \/ Strong_Swap
    \/ Strong_DeleteOld
    \/ Strong_Catch

DmNext ==
    \/ DmCall
    \/ DmDestroy
    \/ update_no_safety
    \/ update_basic_safety
    \/ update_strong_safety

DmSpec == DmInit /\ [][DmNext]_vars

\* The values the variables of the exception safety demonstration take.
DmTypeOK ==
    /\ \A a \in 1..Len(heap) : heap[a].deleted \in Nat
    /\ copy_throw_countdown \in Countdowns
    /\ main_res \in 0..Len(heap)
    /\ \A k \in 1..Len(backup_res_list) : backup_res_list[k] \in 1..Len(heap)
    /\ temp_main_res \in 0..Len(heap) /\ new_main_res \in 0..Len(heap)
    /\ Len(temp_backup_res_list) <= MaxBackups
    /\ Len(new_backup_list) <= MaxBackups
    /\ dm_calls \in 0..MaxCalls
    /\ dm_call.thrown_at \in 0..MaxBackups

\* The Resources made by new since the update main called last was called.
AllocatedInCall == (Len(dm_before.heap) + 1)..Len(heap)

\* main_res and backup_res_list are what they were when the update was
\* called, and so is every Resource that existed then.
StatePreserved ==
    /\ main_res = dm_before.main_res
    /\ backup_res_list = dm_before.backup_res_list
    /\ SubSeq(heap, 1, Len(dm_before.heap)) = dm_before.heap

\* The Resources the DataManager owned when the update was called.
OwnedBefore ==
    (IF dm_before.main_res = 0 THEN {} ELSE {dm_before.main_res})
        \cup {dm_before.backup_res_list[k] :
                  k \in 1..Len(dm_before.backup_res_list)}

\* The Resources the DataManager owns.
Owned ==
    (IF main_res = 0 THEN {} ELSE {main_res})
        \cup {backup_res_list[k] : k \in 1..Len(backup_res_list)}

\* C18: the strong guarantee of update_strong_safety.  Until the swap the
\* DataManager is untouched; when the update has thrown, at whichever backup
\* the copy failed, main_res, backup_res_list and the Resources they point to
\* are as before the call and every Resource allocated during the call has
\* been deleted once; when it has succeeded, the old main resource and the
\* old backups have each been deleted exactly once, nothing else that existed
\* has been touched, and the DataManager owns the new Resources, which are
\* alive.
C18_StrongGuarantee ==
    /\ dm_pc \in {"strong_safety", "strong_safety_copy", "strong_safety_catch"}
       => StatePreserved
    /\ (dm_pc = "main" /\ dm_call.method = "strong_safety")
       => IF dm_call.threw
          THEN /\ StatePreserved
               /\ dm_call.thrown_at \in 1..dm_call.nb
               /\ \A a \in AllocatedInCall : heap[a].deleted = 1
          ELSE /\ \A a \in 1..Len(dm_before.heap) :
                      heap[a].deleted = dm_before.heap[a].deleted
                                          + (IF a \in OwnedBefore THEN 1 ELSE 0)
               /\ \A a \in OwnedBefore : heap[a].deleted = 1
               /\ Owned = AllocatedInCall
               /\ Len(backup_res_list) = dm_call.nb
               /\ \A a \in Owned : heap[a].deleted = 0

\* update_strong_safety was called on a DataManager with a main resource and
\* two backups and threw at the copy of the second backup: the DataManager
\* is as before and the two Resources allocated have been deleted.
C18_Witness ==
    /\ dm_pc = "main"
    /\ dm_call.method = "strong_safety"
    /\ dm_call.threw
    /\ dm_call.thrown_at = 2
    /\ dm_before.main_res # 0
    /\ Len(dm_before.backup_res_list) = 2
    /\ StatePreserved
    /\ Cardinality(AllocatedInCall) = 2

\* C19: update_basic_safety on failure.  When the update has thrown, main_res
\* and backup_res_list and the Resources they point to are as before the
\* call, the temporary main resource and the temporary backups have been
\* deleted once, and no Resource has been deleted twice or leaked: every
\* Resource that is not deleted is owned by the DataManager, and after main
\* has returned every Resource has been deleted exactly once.
C19_BasicGuarantee ==
    /\ dm_pc \in {"basic_safety", "basic_safety_copy", "basic_safety_catch"}
       => StatePreserved
    /\ (dm_pc = "main" /\ dm_call.method = "basic_safety" /\ dm_call.threw)
       => /\ StatePreserved
          /\ temp_main_res = 0 /\ temp_backup_res_list = <<>>
          /\ AllocatedInCall # {}
          /\ \A a \in AllocatedInCall : heap[a].deleted = 1
          /\ \A a \in 1..Len(heap) :
                 /\ heap[a].deleted <= 1
                 /\ heap[a].deleted = 0 => a \in Owned
    /\ (dm_pc = "done" /\ dm_call.method = "basic_safety" /\ dm_call.threw)
       => \A a \in 1..Len(heap) : heap[a].deleted = 1

\* update_basic_safety was called on a DataManager with a main resource and
\* two backups and threw at the copy of the second backup.
C19_Witness ==
    /\ dm_pc = "main"
    /\ dm_call.method = "basic_safety"
    /\ dm_call.threw
    /\ dm_call.thrown_at = 2
    /\ dm_before.main_res # 0
    /\ Len(dm_before.backup_res_list) = 2
    /\ Cardinality(AllocatedInCall) = 2
    /\ \A a \in AllocatedInCall : heap[a].deleted = 1

\* C20: the creation of the main Resource counts as one copy against
\* Resource::copy_throw_countdown: after it a countdown that main set to a
\* positive value is one less.  So with the countdown 3 and two backups
\* update_no_safety throws at the copy of the second backup, and with the
\* countdown 2 and two backups update_basic_safety and update_strong_safety
\* throw at the copy of the first backup.
C20_MainCountsAsCopy ==
    /\ (/\ dm_call.countdown > 0
        /\ \/ dm_pc = "no_safety_clear"
           \/ dm_pc = "basic_safety_copy" /\ temp_backup_res_list = <<>>
           \/ dm_pc = "strong_safety_copy" /\ new_backup_list = <<>>)
       => copy_throw_countdown = dm_call.countdown - 1
    /\ (/\ dm_pc = "main"
        /\ dm_call.method = "no_safety"
        /\ dm_call.countdown = 3 /\ dm_call.nb = 2)
       => dm_call.threw /\ dm_call.thrown_at = 2
    /\ (/\ dm_pc = "main"
        /\ dm_call.method \in {"basic_safety", "strong_safety"}
        /\ dm_call.countdown = 2 /\ dm_call.nb = 2)
       => dm_call.threw /\ dm_call.thrown_at = 1

\* The number of commas of a line.
RECURSIVE CountCommas(_)
CountCommas(s) ==
    IF s = <<>> THEN 0
    ELSE (IF Head(s) = Comma THEN 1 ELSE 0) + CountCommas(Tail(s))

\* C22 as stated: outside quotes a field ends at the next comma and the comma
\* starts a new field.  A line without double quotes that holds k commas is
\* decoded to a row of exactly k + 1 fields, none of which holds a comma, and
\* the first field of a line that begins with a comma is empty.
C22_UnquotedComma ==
    (pc = "row_done" /\ ~HasChar(line, Quote))
       => /\ Len(row) = CountCommas(line) + 1
          /\ \A k \in 1..Len(row) : ~HasChar(row[k], Comma)
          /\ (line # <<>> /\ line[1] = Comma) => (row # <<>> /\ row[1] = <<>>)

\* Whether line k of the lines std::getline delivers is empty once its
\* carriage return is removed.
BlankLine(lines, k) == WithoutCR(lines[k].text) = <<>>

\* Whether a text ends with one or more empty lines and has no empty line
\* before its last record.
EndsWithBlankLines(t) ==
    LET lines == SplitAtLF(t)
    IN  /\ lines # <<>>
        /\ BlankLine(lines, Len(lines))
        /\ \A k \in 1..Len(lines) :
               BlankLine(lines, k) => \A m \in k..Len(lines) : BlankLine(lines, m)

\* The number of lines of a text that are not empty.
NonBlankRecords(t) ==
    Cardinality({k \in 1..Len(SplitAtLF(t)) : ~BlankLine(SplitAtLF(t), k)})

\* C23 as stated: the test for an empty line at the end of the file skips the
\* empty lines a file ends with.  When the file ends with one or more empty
\* lines after its last record, read_csv returns as many rows as the file has
\* records that are not empty.
C23_TrailingBlankLines ==
    (pc = "exit" /\ ReadOK /\ EndsWithBlankLines(file))
       => Len(data) = NonBlankRecords(file)

\* Whether a field holds none of the characters that make the encoder quote.
NoSpecials(f) == ~HasChar(f, Comma) /\ ~HasChar(f, Quote) /\ ~HasChar(f, LF)

\* C27 as stated: the removal of the carriage return takes a line ending
\* only and never the content of a field.  A row of fields without comma,
\* quote and line break whose last field ends with a carriage return, written
\* by write_csv and read by read_csv, is read back with that field unchanged.
C27_CarriageReturnKept ==
    (pc = "exit" /\ WriteOK /\ ReadOK)
       => \A r \in 1..Len(data_to_write) :
              LET w == data_to_write[r]
              IN  (/\ w # <<>>
                   /\ \A k \in 1..Len(w) : NoSpecials(w[k])
                   /\ w[Len(w)] # <<>>
                   /\ w[Len(w)][Len(w[Len(w)])] = CR)
                  => /\ Len(data) >= r
                     /\ Len(data[r]) = Len(w)
                     /\ data[r][Len(w)] = w[Len(w)]

\* The loop of a quoted field as a function: from position p of line l, with
\* the content read so far, to the content of the field and the position
\* after its closing quote or at the end of the line.
RECURSIVE QuotedScan(_, _, _)
QuotedScan(l, p, content) ==
    IF p >= Len(l) THEN [content |-> content, pos |-> p]
    ELSE IF l[p + 1] = Quote
    THEN IF p + 1 < Len(l) /\ l[p + 2] = Quote
         THEN QuotedScan(l, p + 2, Append(content, Quote))
         ELSE [content |-> content, pos |-> p + 1]
    ELSE QuotedScan(l, p + 1, Append(content, l[p + 1]))

\* The loop of a non-quoted field as a function.
RECURSIVE UnquotedScan(_, _, _)
UnquotedScan(l, p, f) ==
    IF p < Len(l) /\ l[p + 1] # Comma
    THEN UnquotedScan(l, p + 1, Append(f, l[p + 1]))
    ELSE [content |-> f, pos |-> p]

\* The fields the field loop pushes from position p of line l.
RECURSIVE FieldLoop(_, _)
FieldLoop(l, p) ==
    IF p >= Len(l) THEN <<>>
    ELSE LET f == IF l[p + 1] = Quote
                  THEN QuotedScan(l, p + 1, <<>>)
                  ELSE UnquotedScan(l, p + 1, <<l[p + 1]>>)
             q == IF f.pos < Len(l) /\ l[f.pos + 1] = Comma
                  THEN f.pos + 1
                  ELSE f.pos
         IN  <<f.content>> \o FieldLoop(l, q)

\* The row the body of the line loop decodes from a line.
DecodeLine(l) ==
    FieldLoop(l, 0) \o (IF l # <<>> /\ Last(l) = Comma THEN <<<<>>>> ELSE <<>>)

\* The table read_csv returns for a text that it reads without a fault.
ReadText(t) ==
    [k \in 1..Len(RecordsCRAtEnd(t)) |-> DecodeLine(RecordsCRAtEnd(t)[k])]

\* C24: a file that cannot be opened is not parsed and read_csv returns the
\* empty table, which is what it returns for an empty file; after a read
\* error read_csv returns the rows of the lines read before the error, which
\* is what it returns for the file cut after those lines when no fault meets
\* the read.  The table returned is all that read_csv returns.
C24_ReadFailures ==
    /\ (pc = "exit" /\ ~in_open)
       => /\ data = <<>>
          /\ data = ReadText(<<>>)
          /\ in_pos = 0 /\ ~in_eof
          /\ line = <<>> /\ row = <<>> /\ ls_pos = 0
    /\ (pc = "exit" /\ in_open /\ in_bad)
       => data = ReadText(SubSeq(file, 1, in_pos))
    /\ (pc = "exit" /\ ReadOK) => data = ReadText(file)
    /\ pc = "row_done" => row = DecodeLine(line)

\* A read error met the read of a file of two lines after its first line: the
\* row of the first line is returned and the second line was never read.
C24_Witness ==
    /\ pc = "exit"
    /\ in_open /\ in_bad
    /\ file = <<"a", LF, "a", LF>>
    /\ in_pos = 2
    /\ data = << << <<"a">> >> >>

\* The program under the scheduling of a sequential process: a step that can
\* be taken is taken.
FairSpec == Spec /\ WF_vars(Next)

\* C25: the line decoder terminates.  Every iteration of the field loop and
\* of the loops of a quoted and of a non-quoted field consumes at least one
\* character of the line, the position in the line never goes back and never
\* passes the end of the line, every line std::getline delivers moves the
\* position in the file forward, and read_csv returns; when no fault met the
\* read it has consumed the whole file.
C25_DecoderTerminates ==
    /\ [][/\ (pc = "decode" /\ pc' \in {"quoted", "unquoted"})
             => ls_pos' = ls_pos + 1
          /\ (pc = "quoted" /\ pc' = "quoted") => ls_pos' > ls_pos
          /\ (pc = "unquoted" /\ pc' = "unquoted") => ls_pos' > ls_pos
          /\ (Decoding /\ Decoding')
             => /\ line' = line
                /\ ls_pos' >= ls_pos
                /\ ls_pos' <= Len(line)
          /\ (pc = "getline" /\ pc' \in {"getline", "decode"})
             => /\ in_pos' > in_pos
                /\ in_pos' <= Len(file)
                /\ file' = file]_vars
    /\ <>(pc = "exit")
    /\ []((pc = "exit" /\ ReadOK) => in_pos = Len(file))

\* read_csv has returned the row of a quoted and a non-quoted field: the
\* field loop and both inner loops have run, and the file is consumed.
C25_Witness ==
    /\ pc = "exit"
    /\ ReadOK
    /\ file = <<Quote, "a", Quote, Comma, "a">>
    /\ in_pos = Len(file)
    /\ data = << << <<"a">>, <<"a">> >> >>

\* Whether line l begins with a quoted field without quotes in it that closes
\* at position n and is followed, up to position m, by characters that are
\* not commas, the first of them no quote, before a comma or the end of l.
QuotedThenTrailing(l, n, m) ==
    /\ 2 <= n /\ n < m /\ m <= Len(l)
    /\ l[1] = Quote /\ l[n] = Quote
    /\ ~HasChar(SubSeq(l, 2, n - 1), Quote)
    /\ l[n + 1] # Quote
    /\ ~HasChar(SubSeq(l, n + 1, m), Comma)
    /\ m = Len(l) \/ l[m + 1] = Comma

PromiseInit ==
    /\ CsvIdle
    /\ MutexIdle
    /\ GuardIdle
    /\ DmIdle
    /\ MsIdle
    /\ promise_shared = "none"
    /\ promise_sets = 0
    /\ delay_ms \in Delays
    /\ promise_pc = "none"
    /\ promise_caught = "none"
    /\ promise_main = [pc |-> "l173", promised_data |-> "none", caught |-> "none"]

\* std::promise<std::string> data_promise: a shared state without a result.
PromiseCtor ==
    /\ promise_main.pc = "l173"
    /\ promise_shared' = "unset"
    /\ promise_main' = [promise_main EXCEPT !.pc = "l174"]
    /\ UNCHANGED <<promise_sets, delay_ms, promise_pc, promise_caught>>
    /\ UNCHANGED not_promise

\* data_future = data_promise.get_future().
GetFuture ==
    /\ promise_main.pc = "l174"
    /\ promise_main' = [promise_main EXCEPT !.pc = "l175"]
    /\ UNCHANGED <<promise_shared, promise_sets, delay_ms, promise_pc,
                   promise_caught>>
    /\ UNCHANGED not_promise

\* std::thread promise_thread(promise_task, std::move(data_promise), delay).
PromiseSpawn ==
    /\ promise_main.pc = "l175"
    /\ promise_pc' = "l104"
    /\ promise_main' = [promise_main EXCEPT !.pc = "l177"]
    /\ UNCHANGED <<promise_shared, promise_sets, delay_ms, promise_caught>>
    /\ UNCHANGED not_promise

\* main prints that it waits.
PromiseAnnounce ==
    /\ promise_main.pc = "l177"
    /\ promise_main' = [promise_main EXCEPT !.pc = "l179"]
    /\ UNCHANGED <<promise_shared, promise_sets, delay_ms, promise_pc,
                   promise_caught>>
    /\ UNCHANGED not_promise

\* data_future.get(): blocks while the shared state has no result, returns
\* the value or throws the exception stored, which main's handler catches.
FutureGet ==
    /\ promise_main.pc = "l179"
    /\ promise_shared \notin {"none", "unset"}
    /\ promise_main' =
           IF promise_shared = "value"
           THEN [promise_main EXCEPT !.pc = "l180", !.promised_data = "value"]
           ELSE [promise_main EXCEPT !.pc = "l182", !.caught = promise_shared]
    /\ UNCHANGED <<promise_shared, promise_sets, delay_ms, promise_pc,
                   promise_caught>>
    /\ UNCHANGED not_promise

\* main prints what it received, or the exception it caught.
PromisePrint ==
    /\ promise_main.pc \in {"l180", "l182"}
    /\ promise_main' = [promise_main EXCEPT !.pc = "l184"]
    /\ UNCHANGED <<promise_shared, promise_sets, delay_ms, promise_pc,
                   promise_caught>>
    /\ UNCHANGED not_promise

\* promise_thread.join().
PromiseJoin ==
    /\ promise_main.pc = "l184"
    /\ promise_pc = "done"
    /\ promise_main' = [promise_main EXCEPT !.pc = "done"]
    /\ UNCHANGED <<promise_shared, promise_sets, delay_ms, promise_pc,
                   promise_caught>>
    /\ UNCHANGED not_promise

PromiseMain ==
    \/ PromiseCtor
    \/ GetFuture
    \/ PromiseSpawn
    \/ PromiseAnnounce
    \/ FutureGet
    \/ PromisePrint
    \/ PromiseJoin

\* std::this_thread::sleep_for returns.
Sleep ==
    /\ promise_pc = "l104"
    /\ promise_pc' = "l105"
    /\ UNCHANGED <<promise_shared, promise_sets, delay_ms, promise_caught,
                   promise_main>>
    /\ UNCHANGED not_promise

\* if (delay_ms > 500) throw std::runtime_error: control goes to the handler.
TestDelay ==
    /\ promise_pc = "l105"
    /\ IF delay_ms > TooLong
       THEN /\ promise_caught' = "runtime_error"
            /\ promise_pc' = "l110"
       ELSE /\ promise_pc' = "l108"
            /\ UNCHANGED promise_caught
    /\ UNCHANGED <<promise_shared, promise_sets, delay_ms, promise_main>>
    /\ UNCHANGED not_promise

\* p.set_value(...): stores the value in a shared state without a result.  On
\* a shared state that has one it throws std::future_error, which the handler
\* of promise_task catches.
SetValue ==
    /\ promise_pc = "l108"
    /\ IF promise_shared = "unset"
       THEN /\ promise_shared' = "value"
            /\ promise_sets' = promise_sets + 1
            /\ promise_pc' = "l112"
            /\ UNCHANGED promise_caught
       ELSE /\ promise_caught' = "future_error"
            /\ promise_pc' = "l110"
            /\ UNCHANGED <<promise_shared, promise_sets>>
    /\ UNCHANGED <<delay_ms, promise_main>>
    /\ UNCHANGED not_promise

\* The handler that only swallows the exception.
SetException_swallowed ==
    /\ promise_pc = "l110"
    /\ promise_pc' = "l112"
    /\ UNCHANGED <<promise_shared, promise_sets, promise_caught>>
    /\ UNCHANGED <<delay_ms, promise_main>>
    /\ UNCHANGED not_promise

\* catch (...) { p.set_exception(std::current_exception()); }.  On a shared
\* state that has a result set_exception throws out of the handler and of the
\* thread function, and the program is terminated.
SetException ==
    /\ promise_pc = "l110"
    /\ IF promise_shared = "unset"
       THEN /\ promise_shared' = promise_caught
            /\ promise_sets' = promise_sets + 1
            /\ promise_pc' = "l112"
       ELSE /\ promise_pc' = "terminated"
            /\ UNCHANGED <<promise_shared, promise_sets>>
    /\ UNCHANGED promise_caught
    /\ UNCHANGED <<delay_ms, promise_main>>
    /\ UNCHANGED not_promise

\* promise_task returns and its parameter p is destroyed: a shared state still
\* without a result gets std::future_error (broken promise).
TaskReturn ==
    /\ promise_pc = "l112"
    /\ promise_pc' = "done"
    /\ promise_shared' = IF promise_shared = "unset"
                         THEN "broken_promise"
                         ELSE promise_shared
    /\ UNCHANGED <<promise_sets, delay_ms, promise_caught, promise_main>>
    /\ UNCHANGED not_promise

promise_task ==
    \/ Sleep
    \/ TestDelay
    \/ SetValue
    \/ SetException
    \/ TaskReturn

PromiseNext ==
    \/ PromiseMain
    \/ promise_task

PromiseSpec == PromiseInit /\ [][PromiseNext]_vars

\* The threads are scheduled by the operating system: a thread that can take
\* a step takes one.
PromiseFairSpec ==
    /\ PromiseSpec
    /\ WF_vars(PromiseMain)
    /\ WF_vars(promise_task)

PromiseTypeOK ==
    /\ promise_shared \in {"none", "unset", "value", "runtime_error",
                           "future_error", "broken_promise"}
    /\ promise_sets \in 0..2
    /\ delay_ms \in Delays
    /\ promise_pc \in {"none", "l104", "l105", "l108", "l110", "l112", "done",
                       "terminated"}
    /\ promise_caught \in {"none", "runtime_error", "future_error"}
    /\ promise_main.pc \in {"l173", "l174", "l175", "l177", "l179", "l180",
                            "l182", "l184", "done"}

\* C21: promise_task fulfils its promise exactly once on every path.  With
\* delay_ms <= 500 the shared state gets the value, with delay_ms > 500 the
\* runtime_error; no second result is ever stored and none is stored twice.
\* data_future.get() in main returns the value in the first case and throws
\* the runtime_error in the second, and main gets past it and past the join.
C21_PromiseFulfilled ==
    /\ [](/\ promise_sets <= 1
          /\ promise_pc \in {"l112", "done"}
                => /\ promise_sets = 1
                   /\ promise_shared =
                          IF delay_ms <= TooLong THEN "value" ELSE "runtime_error"
          /\ promise_shared \in {"none", "unset", "value", "runtime_error"}
          /\ promise_main.pc \in {"l180", "l182", "l184", "done"}
                => IF delay_ms <= TooLong
                   THEN /\ promise_main.promised_data = "value"
                        /\ promise_main.caught = "none"
                   ELSE /\ promise_main.promised_data = "none"
                        /\ promise_main.caught = "runtime_error")
    /\ [][promise_sets' # promise_sets
             => /\ promise_shared = "unset"
                /\ promise_shared' # "unset"]_vars
    /\ (promise_main.pc = "l179") ~> (promise_main.pc \in {"l180", "l182"})
    /\ <>(promise_main.pc = "done" /\ promise_pc = "done")

\* main has caught the runtime_error of a promise_task that slept too long.
C21_Witness ==
    /\ promise_main.pc = "done"
    /\ promise_pc = "done"
    /\ delay_ms = TooLong + 1
    /\ promise_sets = 1
    /\ promise_shared = "runtime_error"
    /\ promise_main.caught = "runtime_error"

\* The threads of the mutex demonstration.
MutexThreads == Workers \cup {UniqueLockThread}

CStrings ==
    {[null |-> TRUE, len |-> 0]}
        \cup {[null |-> FALSE, len |-> n] : n \in 0..MaxStrLen}

\* new char[n + 1] and strcpy of a string of length n: the array buf gets one
\* more element, and its index is the pointer.
NewArray(buf, n) == Append(buf, [len |-> n, frees |-> 0])

\* delete[] p: nothing for the null pointer.
DeleteArray(buf, p) == IF p = 0 THEN buf ELSE [buf EXCEPT ![p].frees = @ + 1]

MsInit ==
    /\ CsvIdle
    /\ MutexIdle
    /\ GuardIdle
    /\ DmIdle
    /\ PromiseIdle
    /\ ms_obj = [o \in Strings |-> NoString]
    /\ ms_buf = <<>>
    /\ ms_pc = "main"

\* What log does in a constructor that calls it before it has set data and
\* len: it reads the two members uninitialized and hands data to the stream
\* as a C string.  The program goes on, whatever was printed, or the read
\* through the pointer stops it.
LogUninitialized(goes_on) ==
    /\ ms_pc' = IF goes_on THEN "main" ELSE "crashed"
    /\ ~goes_on => UNCHANGED <<ms_obj, ms_buf>>

\* MyString(): data(nullptr), len(0).
MyString_default(this) ==
    /\ ms_pc = "main"
    /\ ~ms_obj[this].live
    /\ ms_obj' = [ms_obj EXCEPT ![this] = [live |-> TRUE, data |-> 0, len |-> 0]]
    /\ UNCHANGED <<ms_buf, ms_pc>>
    /\ UNCHANGED not_ms

\* MyString(const char* s).
MyString_cstr(this, s) ==
    /\ ms_pc = "main"
    /\ ~ms_obj[this].live
    /\ s.null \/ Len(ms_buf) < MaxBufs
    /\ \E goes_on \in BOOLEAN :
         /\ LogUninitialized(goes_on)
         /\ goes_on =>
              IF ~s.null
              THEN /\ ms_buf' = NewArray(ms_buf, s.len)
                   /\ ms_obj' = [ms_obj EXCEPT ![this] =
                          [live |-> TRUE, data |-> Len(ms_buf) + 1, len |-> s.len]]
              ELSE /\ ms_obj' = [ms_obj EXCEPT ![this] =
                          [live |-> TRUE, data |-> 0, len |-> 0]]
                   /\ UNCHANGED ms_buf
    /\ UNCHANGED not_ms

\* MyString(const MyString& other): a deep copy.
MyString_copy(this, other) ==
    /\ ms_pc = "main"
    /\ ~ms_obj[this].live
    /\ ms_obj[other].live
    /\ ms_obj[other].data = 0 \/ Len(ms_buf) < MaxBufs
    /\ \E goes_on \in BOOLEAN :
         /\ LogUninitialized(goes_on)
         /\ goes_on =>
              IF ms_obj[other].data # 0
              THEN /\ ms_buf' = NewArray(ms_buf, ms_buf[ms_obj[other].data].len)
                   /\ ms_obj' = [ms_obj EXCEPT ![this] =
                          [live |-> TRUE, data |-> Len(ms_buf) + 1,
                           len |-> ms_obj[other].len]]
              ELSE /\ ms_obj' = [ms_obj EXCEPT ![this] =
                          [live |-> TRUE, data |-> 0, len |-> 0]]
                   /\ UNCHANGED ms_buf
    /\ UNCHANGED not_ms

\* operator=(const MyString& other): nothing on self-assignment; otherwise
\* delete[] data and a deep copy.
copy_assign(this, other) ==
    /\ ms_pc = "main"
    /\ ms_obj[this].live /\ ms_obj[other].live
    /\ (this = other \/ ms_obj[other].data = 0) \/ Len(ms_buf) < MaxBufs
    /\ IF this = other
       THEN UNCHANGED <<ms_obj, ms_buf>>
       ELSE LET freed == DeleteArray(ms_buf, ms_obj[this].data)
            IN  IF ms_obj[other].data # 0
                THEN /\ ms_buf' = NewArray(freed, freed[ms_obj[other].data].len)
                     /\ ms_obj' = [ms_obj EXCEPT ![this] =
                            [live |-> TRUE, data |-> Len(freed) + 1,
                             len |-> ms_obj[other].len]]
                ELSE /\ ms_buf' = freed
                     /\ ms_obj' = [ms_obj EXCEPT ![this] =
                            [live |-> TRUE, data |-> 0, len |-> 0]]
    /\ UNCHANGED ms_pc
    /\ UNCHANGED not_ms

\* A move constructor that copies the pointer and leaves it in the source.
MyString_move_shallow(this, other) ==
    /\ ms_pc = "main"
    /\ ~ms_obj[this].live
    /\ ms_obj[other].live
    /\ \E goes_on \in BOOLEAN :
         /\ LogUninitialized(goes_on)
         /\ goes_on =>
              /\ ms_obj' = [ms_obj EXCEPT ![this] =
                     [live |-> TRUE, data |-> ms_obj[other].data,
                      len |-> ms_obj[other].len]]
              /\ UNCHANGED ms_buf
    /\ UNCHANGED not_ms

\* MyString(MyString&& other): the pointer and the length are taken, and the
\* source is left with the null pointer and length 0.
MyString_move(this, other) ==
    /\ ms_pc = "main"
    /\ ~ms_obj[this].live
    /\ ms_obj[other].live
    /\ \E goes_on \in BOOLEAN :
         /\ LogUninitialized(goes_on)
         /\ goes_on =>
              /\ ms_obj' = [ms_obj EXCEPT
                     ![this] = [live |-> TRUE, data |-> ms_obj[other].data,
                                len |-> ms_obj[other].len],
                     ![other] = [live |-> TRUE, data |-> 0, len |-> 0]]
              /\ UNCHANGED ms_buf
    /\ UNCHANGED not_ms

\* operator=(MyString&& other): nothing on self-assignment; otherwise
\* delete[] data, the pointer and the length are taken, and the source is left
\* with the null pointer and length 0.
move_assign(this, other) ==
    /\ ms_pc = "main"
    /\ ms_obj[this].live /\ ms_obj[other].live
    /\ IF this = other
       THEN UNCHANGED <<ms_obj, ms_buf>>
       ELSE /\ ms_buf' = DeleteArray(ms_buf, ms_obj[this].data)
            /\ ms_obj' = [ms_obj EXCEPT
                   ![this] = [live |-> TRUE, data |-> ms_obj[other].data,
                              len |-> ms_obj[other].len],
                   ![other] = [live |-> TRUE, data |-> 0, len |-> 0]]
    /\ UNCHANGED ms_pc
    /\ UNCHANGED not_ms

\* ~MyString(): delete[] data, and the lifetime of the object ends.
MyString_dtor(this) ==
    /\ ms_pc = "main"
    /\ ms_obj[this].live
    /\ ms_buf' = DeleteArray(ms_buf, ms_obj[this].data)
    /\ ms_obj' = [ms_obj EXCEPT ![this] = NoString]
    /\ UNCHANGED ms_pc
    /\ UNCHANGED not_ms

MsNext ==
    \/ \E this \in Strings : MyString_default(this)
    \/ \E this \in Strings, s \in CStrings : MyString_cstr(this, s)
    \/ \E this, other \in Strings : MyString_copy(this, other)
    \/ \E this, other \in Strings : copy_assign(this, other)
    \/ \E this, other \in Strings : MyString_move(this, other)
    \/ \E this, other \in Strings : move_assign(this, other)
    \/ \E this \in Strings : MyString_dtor(this)

MsSpec == MsInit /\ [][MsNext]_vars

MsTypeOK ==
    /\ ms_pc \in {"idle", "main", "crashed"}
    /\ ms_obj \in [Strings -> [live : BOOLEAN, data : 0..MaxBufs, len : 0..MaxStrLen]]
    /\ Len(ms_buf) <= MaxBufs
    /\ \A b \in 1..Len(ms_buf) : ms_buf[b].len \in 0..MaxStrLen

\* The live MyString objects whose data points to array b.
Owners(b) == {o \in Strings : ms_obj[o].live /\ ms_obj[o].data = b}

\* C29: ownership of the character arrays.  Whatever constructions,
\* assignments, moves and destructions have run, every array has at most one
\* live owner, delete[] was applied to it at most once, and exactly once when
\* no live MyString owns it; len is the length of the string a MyString owns
\* and 0 when data is null.  A move, by construction or by assignment from
\* another object, leaves the destination with the pointer and the length the
\* source had and the source with the null pointer and length 0, and neither
\* allocates nor lets go of the array moved; self-assignment, by copy or by
\* move, changes nothing.
C29_Ownership ==
    /\ [](\A b \in 1..Len(ms_buf) :
              /\ Cardinality(Owners(b)) <= 1
              /\ ms_buf[b].frees <= 1
              /\ ms_buf[b].frees = 1 <=> Owners(b) = {})
    /\ [](\A o \in Strings :
              /\ ms_obj[o].data # 0
                    => /\ ms_obj[o].data <= Len(ms_buf)
                       /\ ms_obj[o].len = ms_buf[ms_obj[o].data].len
              /\ ms_obj[o].data = 0 => ms_obj[o].len = 0)
    /\ [][\A d, s \in Strings :
              /\ ((MyString_move(d, s) /\ ms_pc' = "main")
                     \/ (move_assign(d, s) /\ d # s))
                 => /\ ms_obj'[d].data = ms_obj[s].data
                    /\ ms_obj'[d].len = ms_obj[s].len
                    /\ ms_obj'[s] = [live |-> TRUE, data |-> 0, len |-> 0]
                    /\ Len(ms_buf') = Len(ms_buf)
                    /\ ms_obj[s].data # 0
                          => ms_buf'[ms_obj[s].data] = ms_buf[ms_obj[s].data]
              /\ (d = s /\ (copy_assign(d, s) \/ move_assign(d, s)))
                 => UNCHANGED <<ms_obj, ms_buf>>]_vars

\* The second MyString holds the array the first one was constructed with,
\* the first one is live with the null pointer and length 0, and the third,
\* a copy, was destroyed and its array deleted once.
C29_Witness ==
    /\ ms_pc = "main"
    /\ ms_obj[1] = [live |-> TRUE, data |-> 0, len |-> 0]
    /\ ms_obj[2] = [live |-> TRUE, data |-> 1, len |-> 1]
    /\ ~ms_obj[3].live
    /\ Len(ms_buf) = 2
    /\ ms_buf[1] = [len |-> 1, frees |-> 0]
    /\ ms_buf[2] = [len |-> 1, frees |-> 1]

=============================================================================
